---- MODULE Spec2Model ----
(***************************************************************************)
(* Model of the interview-screener evaluation engine:                      *)
(*   app/agents/{evaluator,analyzer,improvement}.py  the judging agents    *)
(*   app/agents/nodes.py                             the four graph nodes  *)
(*   app/core/graph.py                               the fixed node order  *)
(*   app/schemas/{request,response}.py               the pydantic schemas  *)
(*   app/services/evaluation.py                      cache + orchestration *)
(*   app/services/ranking.py                         batch ranking         *)
(*                                                                         *)
(* Representation.                                                         *)
(*   Optional values: None is <<>>, a present value x is <<x>>.            *)
(*   Free text produced by the judge or written as a literal in the code   *)
(*   is a record [s, n, cut]: s names the text, n is its length in         *)
(*   characters, and cut > 0 says that only the first cut characters of s  *)
(*   are kept, followed by "...".                                          *)
(*   Request strings (answer, question), whose characters decide the cache *)
(*   key, are sequences of one-character strings.                          *)
(***************************************************************************)
EXTENDS Integers, Sequences, FiniteSets, TLC

\* ------------------------------------------------------------ optionals
None == <<>>

Some(x) == <<x>>

Val(o) == o[1]

\* ------------------------------------------------------------ texts
Lit(str, len) == [s |-> str, n |-> len, cut |-> 0]

TextLen(t) == IF t.cut = 0 THEN t.n ELSE t.cut + 3

\* t[:k] + "..."
CutWithEllipsis(t, k) == [s |-> t.s, n |-> t.n, cut |-> k]

\* ------------------------------------------------------------ schema limits
SCORE_MIN == 1

SCORE_MAX == 5

SUMMARY_MIN == 10

SUMMARY_MAX == 200

IMPROVEMENT_MIN == 10

IMPROVEMENT_MAX == 300

RANK_MIN == 1

SUMMARY_KEEP == 197

IMPROVEMENT_KEEP == 297

ANSWER_MIN == 10

\* ------------------------------------------------------------ literals
FALLBACK_SCORE == 3

JUSTIFICATION_CAPABILITY == Lit("Evaluation error occurred: <capability error>", 46)

JUSTIFICATION_PARSE == Lit("Evaluation error occurred: <parse error>", 40)

JUSTIFICATION_SCHEMA == Lit("Evaluation error occurred: <validation error>", 45)

STRENGTHS_FALLBACK == Lit("Unable to analyze strengths", 27)

WEAKNESSES_FALLBACK == Lit("Unable to analyze weaknesses", 28)

SUMMARY_FALLBACK == Lit("Analysis unavailable due to error", 33)

SUGGESTION_FALLBACK == Lit("Review the question requirements and ensure your answer addresses all key points with specific examples.", 105)

NODE_JUSTIFICATION == Lit("Evaluation error", 16)

NODE_ANALYSIS == Lit("Analysis unavailable", 20)

NODE_SUMMARY == Lit("Unable to generate summary", 26)

NODE_SUGGESTION == Lit("Unable to generate suggestion", 29)

NO_SUMMARY == Lit("No summary available", 20)

NO_IMPROVEMENT == Lit("No improvement suggestion available", 35)

SYNTHESIS_ERROR == Lit("Synthesis error", 15)

NO_FEEDBACK == Lit("Unable to provide feedback", 26)

EVAL_ERROR_SUMMARY == Lit("Evaluation encountered an error", 31)

EVAL_ERROR_IMPROVEMENT == Lit("Please try again or contact support", 35)

EVALUATION_FAILED == Lit("Evaluation failed", 17)

LLM_MISSING == Lit("GROQ_API_KEY is not set", 23)

\* ------------------------------------------------------------ the judge
(* One reply of the judging capability to one call: the call raises, or it *)
(* returns text that is not JSON, or JSON whose fields are given (a        *)
(* missing field is None; score is any integer the judge cares to write).  *)
JudgeRaise == [kind |-> "raise", score |-> None, text |-> None]

JudgeMalformed == [kind |-> "malformed", score |-> None, text |-> None]

JudgeJson(score, text) == [kind |-> "json", score |-> score, text |-> text]

STRENGTHS_OK == Lit("<strengths>", 40)

WEAKNESSES_OK == Lit("<weaknesses>", 40)

JUSTIFICATION_OK == Lit("<justification>", 40)

\* The scores the judge may write: in range, and one out of range.
JudgeScores == {1, 5, 7}

\* The one-line summaries the judge may write, by length.
JudgeSummaries == {Lit("<summary>", n) : n \in {4, 10, 50, 200, 201, 250}}

\* The suggestions the judge may write, by length.
JudgeSuggestions == {Lit("<suggestion>", n) : n \in {5, 80, 300, 301, 400}}

ScoreReplies ==
    {JudgeRaise, JudgeMalformed, JudgeJson(None, Some(JUSTIFICATION_OK))}
        \cup {JudgeJson(Some(v), Some(JUSTIFICATION_OK)) : v \in JudgeScores}

AnalyzeReplies ==
    {JudgeRaise, JudgeMalformed} \cup {JudgeJson(None, Some(t)) : t \in JudgeSummaries}

ImproveReplies ==
    {JudgeRaise, JudgeMalformed, JudgeJson(None, None)}
        \cup {JudgeJson(None, Some(t)) : t \in JudgeSuggestions}

\* A judge that may give any of the replies.
FullJudge == [score |-> ScoreReplies, analyze |-> AnalyzeReplies, improve |-> ImproveReplies]

(* A judge with few replies: one score, a summary that is long enough or   *)
(* too short for the response schema, one suggestion.                      *)
SmallJudge ==
    [score |-> {JudgeJson(Some(5), Some(JUSTIFICATION_OK))},
     analyze |-> {JudgeJson(None, Some(Lit("<summary>", 50))),
                  JudgeJson(None, Some(Lit("<summary>", 4)))},
     improve |-> {JudgeJson(None, Some(Lit("<suggestion>", 80)))}]

\* A judge that gives the one score v and never fails.
ScoringJudge(v) ==
    [score |-> {JudgeJson(Some(v), Some(JUSTIFICATION_OK))},
     analyze |-> {JudgeJson(None, Some(Lit("<summary>", 50)))},
     improve |-> {JudgeJson(None, Some(Lit("<suggestion>", 80)))}]

\* ------------------------------------------------------------ schemas
\* EvaluatorOutput(**parsed): score is an int in 1..5, justification a string.
EvaluatorOutputValid(reply) ==
    /\ reply.score # None
    /\ Val(reply.score) >= SCORE_MIN
    /\ Val(reply.score) <= SCORE_MAX
    /\ reply.text # None

\* AnalyzerOutput(**parsed) and ImprovementOutput(**parsed): the strings are there.
TextOutputValid(reply) == reply.text # None

\* A response schema that asks for the three fields and constrains none.
EvaluationResponseUnchecked(score, summary, improvement) ==
    /\ score # None
    /\ summary # None
    /\ improvement # None

\* EvaluationResponse(score=, summary=, improvement=): the field constraints.
EvaluationResponseValid(score, summary, improvement) ==
    /\ score # None
    /\ Val(score) >= SCORE_MIN
    /\ Val(score) <= SCORE_MAX
    /\ summary # None
    /\ TextLen(Val(summary)) >= SUMMARY_MIN
    /\ TextLen(Val(summary)) <= SUMMARY_MAX
    /\ improvement # None
    /\ TextLen(Val(improvement)) >= IMPROVEMENT_MIN
    /\ TextLen(Val(improvement)) <= IMPROVEMENT_MAX

EvaluationResponse(score, summary, improvement) ==
    [score |-> score, summary |-> summary, improvement |-> improvement]

\* RankedCandidate(candidate_id=, score=, summary=, improvement=, rank=).
RankedCandidateValid(score, rank) ==
    /\ score >= SCORE_MIN
    /\ score <= SCORE_MAX
    /\ rank >= RANK_MIN

RankedCandidate(candidate_id, score, summary, improvement, rank) ==
    [candidate_id |-> candidate_id, score |-> score, summary |-> summary,
     improvement |-> improvement, rank |-> rank]

\* ------------------------------------------------------------ agents
(* The module app.core.llm builds the client when it is imported, so a     *)
(* process that serves requests has a key: get_langchain_llm() returns the *)
(* cached client.                                                          *)
groq_api_key_set == TRUE

\* An agent's outcome: it raised (before its try), or it returned out.
Raised(e) == [raised |-> TRUE, error |-> Some(e), out |-> None]

Returned(out) == [raised |-> FALSE, error |-> None, out |-> Some(out)]

\* An agent that calls the judge a second time when the first call raised.
JudgeCallsWithRetry(reply) == IF reply.kind = "raise" THEN 2 ELSE 1

\* How many times the agent called the judge.
JudgeCallsOf(reply) == IF groq_api_key_set THEN 1 ELSE 0

\* An agent whose fallback is the lowest score.
evaluate_answer_sync_lowest(reply) ==
    IF reply.kind = "json" /\ EvaluatorOutputValid(reply)
    THEN Returned([score |-> Val(reply.score), justification |-> Val(reply.text)])
    ELSE Returned([score |-> SCORE_MIN, justification |-> JUSTIFICATION_CAPABILITY])

evaluate_answer_sync(reply) ==
    IF ~groq_api_key_set THEN Raised(LLM_MISSING)
    ELSE IF reply.kind = "raise"
        THEN Returned([score |-> FALLBACK_SCORE, justification |-> JUSTIFICATION_CAPABILITY])
    ELSE IF reply.kind = "malformed"
        THEN Returned([score |-> FALLBACK_SCORE, justification |-> JUSTIFICATION_PARSE])
    ELSE IF ~EvaluatorOutputValid(reply)
        THEN Returned([score |-> FALLBACK_SCORE, justification |-> JUSTIFICATION_SCHEMA])
    ELSE Returned([score |-> Val(reply.score), justification |-> Val(reply.text)])

\* An agent whose fallback tells a reply that did not parse from a call that raised.
analyze_answer_sync_telling(reply) ==
    IF reply.kind = "raise"
    THEN Returned([strengths |-> STRENGTHS_FALLBACK, weaknesses |-> WEAKNESSES_FALLBACK,
                   summary |-> SUMMARY_FALLBACK])
    ELSE IF reply.kind # "json" \/ ~TextOutputValid(reply)
    THEN Returned([strengths |-> STRENGTHS_FALLBACK, weaknesses |-> WEAKNESSES_FALLBACK,
                   summary |-> Lit("Analysis reply could not be parsed", 34)])
    ELSE Returned([strengths |-> STRENGTHS_OK, weaknesses |-> WEAKNESSES_OK,
                   summary |-> Val(reply.text)])

AnalyzerFallback ==
    [strengths |-> STRENGTHS_FALLBACK, weaknesses |-> WEAKNESSES_FALLBACK,
     summary |-> SUMMARY_FALLBACK]

analyze_answer_sync(reply) ==
    IF ~groq_api_key_set THEN Raised(LLM_MISSING)
    ELSE IF reply.kind # "json" \/ ~TextOutputValid(reply)
        THEN Returned(AnalyzerFallback)
    ELSE Returned([strengths |-> STRENGTHS_OK, weaknesses |-> WEAKNESSES_OK,
                   summary |-> Val(reply.text)])

suggest_improvement_sync(reply) ==
    IF ~groq_api_key_set THEN Raised(LLM_MISSING)
    ELSE IF reply.kind # "json" \/ ~TextOutputValid(reply)
        THEN Returned([suggestion |-> SUGGESTION_FALLBACK])
    ELSE Returned([suggestion |-> Val(reply.text)])

\* ------------------------------------------------------------ graph state
\* The initial_state dictionary evaluate() builds.
InitialState ==
    [evaluator_score |-> None, evaluator_justification |-> None,
     analyzer_strengths |-> None, analyzer_weaknesses |-> None,
     improvement_suggestion |-> None,
     final_score |-> None, final_summary |-> None, final_improvement |-> None,
     messages |-> <<>>, current_agent |-> None, error |-> None, cached |-> FALSE]

\* state.get(key, default): the default only stands in for an absent key.
Get(state, key, default) == IF key \in DOMAIN state THEN state[key] ELSE default

(* The graph applies a node's update: a key of the update replaces the     *)
(* state's value, except messages, whose reducer appends.                  *)
ApplyUpdate(state, upd) ==
    [k \in DOMAIN state |->
        IF k \notin DOMAIN upd THEN state[k]
        ELSE IF k = "messages" THEN state[k] \o upd[k]
        ELSE upd[k]]

\* ------------------------------------------------------------ nodes
evaluator_node(state, reply) ==
    LET r == evaluate_answer_sync(reply) IN
    IF ~r.raised
    THEN [evaluator_score |-> Some(Val(r.out).score),
          evaluator_justification |-> Some(Val(r.out).justification),
          current_agent |-> Some("evaluator"),
          messages |-> <<"Score">>]
    ELSE [evaluator_score |-> Some(FALLBACK_SCORE),
          evaluator_justification |-> Some(NODE_JUSTIFICATION),
          error |-> r.error,
          current_agent |-> Some("evaluator")]

analyzer_node(state, reply) ==
    LET r == analyze_answer_sync(reply) IN
    IF ~r.raised
    THEN [analyzer_strengths |-> Some(Val(r.out).strengths),
          analyzer_weaknesses |-> Some(Val(r.out).weaknesses),
          final_summary |-> Some(Val(r.out).summary),
          current_agent |-> Some("analyzer"),
          messages |-> <<"Summary">>]
    ELSE [analyzer_strengths |-> Some(NODE_ANALYSIS),
          analyzer_weaknesses |-> Some(NODE_ANALYSIS),
          final_summary |-> Some(NODE_SUMMARY),
          error |-> r.error,
          current_agent |-> Some("analyzer")]

\* A node that writes the suggestion of the reply as it came, set or not.
improvement_node_trusting(state, reply) ==
    [improvement_suggestion |-> reply.text,
     final_improvement |-> reply.text,
     current_agent |-> Some("improvement"),
     messages |-> <<"Improvement">>]

improvement_node(state, reply) ==
    LET r == suggest_improvement_sync(reply) IN
    IF ~r.raised
    THEN [improvement_suggestion |-> Some(Val(r.out).suggestion),
          final_improvement |-> Some(Val(r.out).suggestion),
          current_agent |-> Some("improvement"),
          messages |-> <<"Improvement">>]
    ELSE [improvement_suggestion |-> Some(NODE_SUGGESTION),
          final_improvement |-> Some(NODE_SUGGESTION),
          error |-> r.error,
          current_agent |-> Some("improvement")]

\* A cut that keeps SUMMARY_MAX characters and then appends the ellipsis.
TruncateSummaryLate(t) ==
    IF TextLen(t) > SUMMARY_MAX THEN CutWithEllipsis(t, SUMMARY_MAX) ELSE t

\* final_summary[:197] + "..." when len(final_summary) > 200
TruncateSummary(t) ==
    IF TextLen(t) > SUMMARY_MAX THEN CutWithEllipsis(t, SUMMARY_KEEP) ELSE t

\* final_improvement[:297] + "..." when len(final_improvement) > 300
TruncateImprovement(t) ==
    IF TextLen(t) > IMPROVEMENT_MAX THEN CutWithEllipsis(t, IMPROVEMENT_KEEP) ELSE t

synthesizer_node(state) ==
    LET final_score == Get(state, "evaluator_score", Some(FALLBACK_SCORE))
        final_summary == Get(state, "final_summary", Some(NO_SUMMARY))
        final_improvement == Get(state, "final_improvement", Some(NO_IMPROVEMENT))
    IN
    \* len(None) raises TypeError, which the node's except turns into its fallback
    IF final_summary = None \/ final_improvement = None
    THEN [final_score |-> Some(FALLBACK_SCORE),
          final_summary |-> Some(SYNTHESIS_ERROR),
          final_improvement |-> Some(NO_FEEDBACK),
          error |-> Some(Lit("object of type 'NoneType' has no len()", 38)),
          current_agent |-> Some("synthesizer")]
    ELSE [final_score |-> final_score,
          final_summary |-> Some(TruncateSummary(Val(final_summary))),
          final_improvement |-> Some(TruncateImprovement(Val(final_improvement))),
          current_agent |-> Some("synthesizer"),
          messages |-> <<"Synthesis complete">>]

\* A graph with a branch from the evaluator past the analyzer.
NextNodeBranching(node) ==
    CASE node = "evaluator" -> "improvement"
      [] node = "analyzer" -> "improvement"
      [] node = "improvement" -> "synthesizer"
      [] node = "synthesizer" -> "END"

\* A graph that ends after the improvement node.
NextNodeEndingEarly(node) ==
    CASE node = "evaluator" -> "analyzer"
      [] node = "analyzer" -> "improvement"
      [] node = "improvement" -> "END"
      [] node = "synthesizer" -> "END"

\* The edges of build_evaluation_graph: one successor per node.
NextNode(node) ==
    CASE node = "evaluator" -> "analyzer"
      [] node = "analyzer" -> "improvement"
      [] node = "improvement" -> "synthesizer"
      [] node = "synthesizer" -> "END"

\* ------------------------------------------------------------ cache key
\* f"{answer}:{question or ''}"
KeyContent(answer, question) ==
    answer \o <<":">> \o (IF question = None THEN <<>> ELSE Val(question))

(* hashlib.md5(content.encode()).hexdigest(): a digest, taken to be free   *)
(* of collisions, so it stands for the content it was computed from.       *)
Md5Hex(content) == [md5 |-> content]

\* A key computed from the answer alone.
generate_cache_key_of_answer(answer, question) ==
    [prefix |-> "eval:", digest |-> Md5Hex(answer \o <<":">>)]

generate_cache_key(answer, question) ==
    [prefix |-> "eval:", digest |-> Md5Hex(KeyContent(answer, question))]

\* ------------------------------------------------------------ cache values
(* json.dumps(result.model_dump()): a JSON document with the three fields. *)
(* A stored value is a record [fmt, score, summary, improvement]; fmt is   *)
(* "json" for a JSON object, and a field the object lacks is None.         *)
Serialize(response) ==
    [fmt |-> "json", score |-> response.score, summary |-> response.summary,
     improvement |-> response.improvement]

\* json.loads(cached) succeeds and EvaluationResponse(**data) validates
Deserializable(bytes) ==
    /\ bytes.fmt = "json"
    /\ EvaluationResponseValid(bytes.score, bytes.summary, bytes.improvement)

Deserialize(bytes) == EvaluationResponse(bytes.score, bytes.summary, bytes.improvement)

\* ------------------------------------------------------------ requests
Chars(n, ch) == [i \in 1..n |-> ch]

AnswerA == Chars(ANSWER_MIN, "a")

AnswerB == Chars(ANSWER_MIN, "b")

AnswerC == Chars(ANSWER_MIN, "c")

AnswerD == Chars(ANSWER_MIN, "d")

QuestionQ == <<"q", "?">>

Request(answer, question) == [answer |-> answer, question |-> question]

\* The /evaluate-answer requests of the evaluation runs.
Inputs == {Request(AnswerA, None), Request(AnswerB, Some(QuestionQ))}

\* The requests whose keys are compared.
KeyInputs ==
    {Request(a, q) :
        a \in {AnswerA, AnswerB, AnswerA \o <<":", "b">>, AnswerA \o <<" ">>},
        q \in {None, Some(<<>>), Some(<<"c">>), Some(<<"c", " ">>), Some(<<"b", ":", "c">>),
               Some(QuestionQ)}}

\* ------------------------------------------------------------ bounds
\* Concurrent /evaluate-answer requests.
MaxCalls == 2

\* Candidates of one /rank-candidates request.
MaxCandidates == 4

Calls == 1..(IF MaxCalls > MaxCandidates THEN MaxCalls ELSE MaxCandidates)

\* ------------------------------------------------------------ ranking requests
CandidateAnswer(candidate_id, answer) == [candidate_id |-> candidate_id, answer |-> answer]

PoolAnswers == <<AnswerB, AnswerA, AnswerD, AnswerC>>

\* n candidates with unique ids; their answers differ while n is at most four.
MixedBatch(n) ==
    [i \in 1..n |-> CandidateAnswer(ToString(i), PoolAnswers[((i - 1) % Len(PoolAnswers)) + 1])]

\* n candidates with unique ids and one and the same answer.
SameBatch(n) == [i \in 1..n |-> CandidateAnswer(ToString(i), AnswerA)]

Batches == {MixedBatch(n) : n \in 1..MaxCandidates} \cup {SameBatch(n) : n \in 1..MaxCandidates}

Answers == {AnswerA, AnswerB, AnswerC, AnswerD}

\* The judge of the ranking runs: AnswerB is worth 2, AnswerA and AnswerD 5, AnswerC 1.
RankJudge ==
    [a \in Answers |->
        CASE a = AnswerA -> ScoringJudge(5)
          [] a = AnswerB -> ScoringJudge(2)
          [] a = AnswerC -> ScoringJudge(1)
          [] a = AnswerD -> ScoringJudge(5)]

StoreKeys ==
    {generate_cache_key(r.answer, r.question) : r \in Inputs}
        \cup {generate_cache_key(a, q) : a \in Answers, q \in {None, Some(QuestionQ)}}

\* ------------------------------------------------------------ state
VARIABLES
    enable_caching,      \* settings.enable_caching
    evaluation_service,  \* the module's _evaluation_service: None or the instance
    redis_client,        \* the instance's redis_client: None or a client
    storeUp,             \* whether the store answers (it raises otherwise)
    store,               \* the store: key -> None or the bytes under the key
    judge,               \* the replies the judge may give, per answer and stage
    running,             \* the coroutine that holds the event loop: a call, or 0
    call,                \* per evaluation: where it is, its locals, what it did
    rank                 \* the ranking request: where it is, its locals

vars ==
    <<enable_caching, evaluation_service, redis_client, storeUp, store, judge,
      running, call, rank>>

IdleCall ==
    [pc |-> "idle", answer |-> <<>>, question |-> None, candidate_id |-> "",
     throws |-> FALSE,
     \* the calls that had ended when this one arrived
     preceded_by |-> {},
     cache_key |-> None, state |-> None, response |-> None,
     \* how evaluate() ended, and with what
     outcome |-> "none", result |-> None,
     \* what the call did: the cache read and what it returned, the nodes run,
     \* the judge calls made, the graph's final fields, the cache write
     get_outcome |-> "none", read |-> None, nodes_run |-> <<>>, judge_calls |-> 0,
     \* per judging node run: what it passed to its agent and the judge's reply
     judged |-> <<>>,
     final |-> None, set_outcome |-> "none",
     \* how _evaluate_candidate() ended, and with what
     task_outcome |-> "none", draft |-> None]

IdleRank ==
    [pc |-> "idle", candidates |-> <<>>, question_context |-> None,
     outcome |-> "none", response |-> None]

TypeOK ==
    /\ enable_caching \in BOOLEAN
    /\ evaluation_service \in {None, Some("EvaluationService")}
    /\ redis_client \in {None, Some("Redis")}
    /\ storeUp \in BOOLEAN
    /\ DOMAIN store = StoreKeys
    /\ running \in {0} \cup Calls
    /\ DOMAIN call = Calls

Init ==
    /\ enable_caching \in BOOLEAN
    /\ evaluation_service = None
    /\ redis_client = None
    /\ storeUp \in BOOLEAN
    /\ store = [k \in StoreKeys |-> None]
    /\ judge = [a \in Answers |-> SmallJudge]
    /\ running = 0
    /\ call = [c \in Calls |-> IdleCall]
    /\ rank = IdleRank

\* ------------------------------------------------------------ evaluate()
NEUTRAL_RESPONSE ==
    EvaluationResponse(Some(FALLBACK_SCORE), Some(EVAL_ERROR_SUMMARY),
                       Some(EVAL_ERROR_IMPROVEMENT))

\* A condition that looks at the setting only, not at the client.
CacheBypassed_by_setting(client) == ~enable_caching

\* _get_cached_result and _cache_result return at once under this condition.
CacheBypassed(client) == client = None \/ ~enable_caching

(* _evaluate_candidate around one evaluate(): the draft it returns, or the *)
(* exception that leaves it.  DRAFT_RANK is the rank it writes.            *)
DRAFT_RANK == 0

evaluate_candidate(candidate_id, outcome, result) ==
    IF /\ outcome = "returned"
       /\ RankedCandidateValid(Val(Val(result).score), DRAFT_RANK)
    THEN Returned(RankedCandidate(candidate_id, Val(Val(result).score),
                                  Val(Val(result).summary),
                                  Val(Val(result).improvement), DRAFT_RANK))
    ELSE IF RankedCandidateValid(FALLBACK_SCORE, DRAFT_RANK)
    THEN Returned(RankedCandidate(candidate_id, FALLBACK_SCORE, EVALUATION_FAILED,
                                  NO_FEEDBACK, DRAFT_RANK))
    ELSE Raised(Lit("ValidationError: rank", 21))

(* evaluate() ends for call record r: it returns response or raises.  A    *)
(* call made by _evaluate_candidate goes on, in the same turn of the loop, *)
(* to build its draft.                                                     *)
Ended(r, outcome, response) ==
    LET t == evaluate_candidate(r.candidate_id, outcome, response) IN
    [r EXCEPT !.pc = "done", !.outcome = outcome, !.result = response, !.state = None,
              !.task_outcome = IF r.candidate_id = "" THEN "none"
                               ELSE IF t.raised THEN "raised" ELSE "returned",
              !.draft = IF r.candidate_id = "" THEN None ELSE t.out]

\* An except branch that logs the exception and raises it again.
evaluate_except_reraising(r) == Ended(r, "raised", None)

\* An except branch that hands the neutral response to _cache_result.
evaluate_except_caching(r) ==
    [r EXCEPT !.pc = "await_set", !.response = Some(NEUTRAL_RESPONSE), !.state = None]

\* evaluate()'s except branch: the neutral response is returned.
evaluate_except(r) == Ended(r, "returned", Some(NEUTRAL_RESPONSE))

\* An evaluate() that starts the workflow without asking the cache.
EnterEvaluate_unread(c, r, client) ==
    LET k == generate_cache_key(r.answer, r.question) IN
    IF r.throws
    THEN [rec |-> Ended(r, "raised", None), holder |-> 0]
    ELSE [rec |-> [r EXCEPT !.pc = "evaluator", !.cache_key = Some(k),
                            !.state = Some(InitialState)],
          holder |-> c]

(* evaluate() from its first line to its first suspension: the key, then   *)
(* _get_cached_result, which returns None at once without a client and     *)
(* otherwise waits for the store.  Gives the call record and the holder of *)
(* the loop afterwards.                                                    *)
EnterEvaluate(c, r, client) ==
    LET k == generate_cache_key(r.answer, r.question) IN
    IF r.throws
    THEN [rec |-> Ended(r, "raised", None), holder |-> 0]
    ELSE IF CacheBypassed(client)
    THEN [rec |-> [r EXCEPT !.pc = "evaluator", !.cache_key = Some(k),
                            !.get_outcome = "skipped", !.state = Some(InitialState)],
          holder |-> c]
    ELSE [rec |-> [r EXCEPT !.pc = "await_get", !.cache_key = Some(k)],
          holder |-> 0]

(* get_evaluation_service(): the instance is created on first use and      *)
(* initialize_redis() sets the client and waits for ping.                  *)
NeedsInit == evaluation_service = None

\* An /evaluate-answer request arrives: the dependency, then evaluate().
Arrive(c, req) ==
    /\ running = 0
    /\ c \in 1..MaxCalls
    /\ call[c].pc = "idle"
    /\ \A d \in 1..(c - 1) : call[d].pc # "idle"
    /\ rank.pc = "idle"
    /\ LET r == [call[c] EXCEPT !.answer = req.answer, !.question = req.question,
                                !.preceded_by = {d \in Calls : call[d].pc = "done"}] IN
       IF NeedsInit /\ enable_caching
       THEN /\ evaluation_service' = Some("EvaluationService")
            /\ redis_client' = Some("Redis")
            /\ call' = [call EXCEPT ![c] = [r EXCEPT !.pc = "await_ping"]]
            /\ UNCHANGED running
       ELSE LET e == EnterEvaluate(c, r, redis_client) IN
            /\ evaluation_service' = Some("EvaluationService")
            /\ call' = [call EXCEPT ![c] = e.rec]
            /\ running' = e.holder
            /\ UNCHANGED redis_client
    /\ UNCHANGED <<enable_caching, storeUp, store, judge, rank>>

\* await self.redis_client.ping() returns or raises; then evaluate() starts.
PingReturn(c) ==
    /\ running = 0
    /\ call[c].pc = "await_ping"
    /\ LET client == IF storeUp THEN redis_client ELSE None
           e == EnterEvaluate(c, call[c], client)
       IN /\ redis_client' = client
          /\ call' = [call EXCEPT ![c] = e.rec]
          /\ running' = e.holder
    /\ UNCHANGED <<enable_caching, evaluation_service, storeUp, store, judge, rank>>

\* A read whose result is thrown away.
get_cached_result_never(up, cached) == None

\* A read that takes whatever bytes the store holds for a response.
get_cached_result_trusting(up, cached) ==
    IF ~up THEN None
    ELSE IF cached = None THEN None
    ELSE Some(Deserialize(Val(cached)))

\* A write whose exception is not caught: it lands in evaluate()'s except.
cache_result_propagates(up) == ~up

(* _get_cached_result once the store has answered: up says whether get    *)
(* returned, cached is what it returned.  An exception (from get, from     *)
(* json.loads, from the schema) is caught and None returned.               *)
get_cached_result(up, cached) ==
    IF ~up THEN None
    ELSE IF cached = None THEN None
    ELSE IF ~Deserializable(Val(cached)) THEN None
    ELSE Some(Deserialize(Val(cached)))

\* Whether an exception leaves _cache_result when setex raises: it is caught.
cache_result_raises(up) == FALSE

(* await self.redis_client.get(cache_key) returns or raises.  A value that *)
(* deserializes is returned; anything else is a miss and the workflow      *)
(* starts.                                                                 *)
CacheGetReturn(c) ==
    /\ running = 0
    /\ call[c].pc = "await_get"
    /\ LET r == call[c]
           cached == IF storeUp THEN store[Val(r.cache_key)] ELSE None
           cached_result == get_cached_result(storeUp, cached)
           why == IF ~storeUp THEN "failed"
                  ELSE IF cached = None THEN "absent"
                  ELSE IF cached_result = None THEN "invalid" ELSE "hit"
           seen == [r EXCEPT !.get_outcome = why, !.read = cached]
       IN IF cached_result # None
          THEN /\ call' = [call EXCEPT ![c] = Ended(seen, "returned", cached_result)]
               /\ running' = 0
          ELSE /\ call' = [call EXCEPT ![c] =
                     [seen EXCEPT !.pc = "evaluator", !.state = Some(InitialState)]]
               /\ running' = c
    /\ UNCHANGED <<enable_caching, evaluation_service, redis_client, storeUp, store,
                   judge, rank>>

(* What a node passes to its agent besides the answer and the question:    *)
(* the analyzer the score, the improvement node the score and the          *)
(* weaknesses, each read from the state the node is given.                 *)
evaluator_args(state) == [score |-> None, weaknesses |-> None]

analyzer_args(state) ==
    [score |-> Get(state, "evaluator_score", None), weaknesses |-> None]

\* A node that reads the weaknesses from the state as it was before the analysis.
improvement_args_stale(state) ==
    [score |-> Get(state, "evaluator_score", None),
     weaknesses |-> InitialState.analyzer_weaknesses]

improvement_args(state) ==
    [score |-> Get(state, "evaluator_score", None),
     weaknesses |-> Get(state, "analyzer_weaknesses", None)]

\* The record of one judging node: the node, what it passed on, the reply.
Asked(node, args, reply) ==
    <<[node |-> node, score |-> args.score, weaknesses |-> args.weaknesses,
       reply |-> reply]>>

(* One node of the graph runs: its update is applied and the next node is  *)
(* due.  asked is the record of its call to its agent, or empty.           *)
RunNode(c, node, upd, calls, asked) ==
    /\ running = c
    /\ call[c].pc = node
    /\ call' = [call EXCEPT ![c] =
          [@ EXCEPT !.state = Some(ApplyUpdate(Val(@), upd)),
                    !.nodes_run = Append(@, node),
                    !.judge_calls = @ + calls,
                    !.judged = @ \o asked,
                    !.pc = IF NextNode(node) = "END" THEN "extract" ELSE NextNode(node)]]
    /\ UNCHANGED <<enable_caching, evaluation_service, redis_client, storeUp, store,
                   judge, running, rank>>

EvaluatorNode(c) ==
    /\ call[c].pc = "evaluator"
    /\ \E reply \in judge[call[c].answer].score :
          RunNode(c, "evaluator", evaluator_node(Val(call[c].state), reply),
                  JudgeCallsOf(reply),
                  Asked("evaluator", evaluator_args(Val(call[c].state)), reply))

AnalyzerNode(c) ==
    /\ call[c].pc = "analyzer"
    /\ \E reply \in judge[call[c].answer].analyze :
          RunNode(c, "analyzer", analyzer_node(Val(call[c].state), reply),
                  JudgeCallsOf(reply),
                  Asked("analyzer", analyzer_args(Val(call[c].state)), reply))

ImprovementNode(c) ==
    /\ call[c].pc = "improvement"
    /\ \E reply \in judge[call[c].answer].improve :
          RunNode(c, "improvement", improvement_node(Val(call[c].state), reply),
                  JudgeCallsOf(reply),
                  Asked("improvement", improvement_args(Val(call[c].state)), reply))

SynthesizerNode(c) ==
    /\ call[c].pc = "synthesizer"
    /\ RunNode(c, "synthesizer", synthesizer_node(Val(call[c].state)), 0, <<>>)

(* graph.invoke has returned: the response is built from the final fields; *)
(* a response that validates goes to _cache_result, which returns at once  *)
(* without a client and otherwise waits for the store; a validation error  *)
(* lands in the except branch, which returns the neutral response.         *)
ExtractResponse(c) ==
    /\ running = c
    /\ call[c].pc = "extract"
    /\ LET r == call[c]
           st == Val(r.state)
           fin == EvaluationResponse(st.final_score, st.final_summary, st.final_improvement)
           seen == [r EXCEPT !.final = Some(fin)]
       IN IF ~EvaluationResponseValid(st.final_score, st.final_summary, st.final_improvement)
          THEN /\ call' = [call EXCEPT ![c] = evaluate_except(seen)]
               /\ running' = 0
          ELSE IF CacheBypassed(redis_client)
          THEN /\ call' = [call EXCEPT ![c] =
                     Ended([seen EXCEPT !.set_outcome = "skipped"], "returned", Some(fin))]
               /\ running' = 0
          ELSE /\ call' = [call EXCEPT ![c] =
                     [seen EXCEPT !.pc = "await_set", !.response = Some(fin), !.state = None]]
               /\ running' = 0
    /\ UNCHANGED <<enable_caching, evaluation_service, redis_client, storeUp, store,
                   judge, rank>>

\* A write that leaves an entry that is already there.
setex_if_absent(st, key, value) ==
    IF st[key] = None THEN [st EXCEPT ![key] = Some(value)] ELSE st

\* A write that also drops every entry under another key.
setex_flushing(st, key, value) ==
    [k \in DOMAIN st |-> IF k = key THEN Some(value) ELSE None]

\* redis setex: the value replaces whatever is under the key.
setex(st, key, value) == [st EXCEPT ![key] = Some(value)]

\* await self.redis_client.setex(...) returns or raises; evaluate() returns.
CacheSetReturn(c) ==
    /\ running = 0
    /\ call[c].pc = "await_set"
    /\ LET r == call[c]
           done == [r EXCEPT !.set_outcome = IF storeUp THEN "written" ELSE "failed"]
       IN /\ store' = IF storeUp
                      THEN setex(store, Val(r.cache_key), Serialize(Val(r.response)))
                      ELSE store
          /\ call' = [call EXCEPT ![c] =
                IF cache_result_raises(storeUp)
                THEN evaluate_except(done)
                ELSE Ended(done, "returned", r.response)]
    /\ UNCHANGED <<enable_caching, evaluation_service, redis_client, storeUp, judge,
                   running, rank>>

\* ------------------------------------------------------------ the store's side
(* The store goes away and comes back.  evaluate() looks at the store only  *)
(* where it awaits it, with the loop free, so the store's changes are      *)
(* taken there.                                                            *)
StoreFails ==
    /\ running = 0
    /\ storeUp
    /\ storeUp' = FALSE
    /\ UNCHANGED <<enable_caching, evaluation_service, redis_client, store, judge,
                   running, call, rank>>

StoreRecovers ==
    /\ running = 0
    /\ ~storeUp
    /\ storeUp' = TRUE
    /\ UNCHANGED <<enable_caching, evaluation_service, redis_client, store, judge,
                   running, call, rank>>

\* The TTL of an entry runs out.
Expire(k) ==
    /\ running = 0
    /\ store[k] # None
    /\ store' = [store EXCEPT ![k] = None]
    /\ UNCHANGED <<enable_caching, evaluation_service, redis_client, storeUp, judge,
                   running, call, rank>>

\* What evaluate() does after it has started.
Work(c) ==
    \/ CacheGetReturn(c)
    \/ EvaluatorNode(c)
    \/ AnalyzerNode(c)
    \/ ImprovementNode(c)
    \/ SynthesizerNode(c)
    \/ ExtractResponse(c)
    \/ CacheSetReturn(c)

Next ==
    \/ \E c \in Calls, req \in Inputs : Arrive(c, req)
    \/ \E c \in Calls : PingReturn(c)
    \/ \E c \in Calls : Work(c)
    \/ StoreFails
    \/ StoreRecovers
    \/ \E k \in StoreKeys : Expire(k)

Spec == Init /\ [][Next]_vars

\* ------------------------------------------------------------ a healthy store
(* The store is there from the start and stays there, and no entry         *)
(* outlives its TTL within the run.                                        *)
InitHealthy ==
    /\ Init
    /\ enable_caching
    /\ storeUp

NextHealthy ==
    \/ \E c \in Calls, req \in Inputs : Arrive(c, req)
    \/ \E c \in Calls : PingReturn(c)
    \/ \E c \in Calls : Work(c)

SpecHealthy == InitHealthy /\ [][NextHealthy]_vars

\* ------------------------------------------------------------ requests that race
(* A judge that words its summary in one of two ways, both within the      *)
(* response schema: the same answer need not get the same reply twice.     *)
RaceJudge ==
    [score |-> {JudgeJson(Some(5), Some(JUSTIFICATION_OK))},
     analyze |-> {JudgeJson(None, Some(Lit("<summary>", 50))),
                  JudgeJson(None, Some(Lit("<another summary>", 60)))},
     improve |-> {JudgeJson(None, Some(Lit("<suggestion>", 80)))}]

InitRace ==
    /\ enable_caching = TRUE
    /\ evaluation_service = None
    /\ redis_client = None
    /\ storeUp = TRUE
    /\ store = [k \in StoreKeys |-> None]
    /\ judge = [a \in Answers |-> RaceJudge]
    /\ running = 0
    /\ call = [c \in Calls |-> IdleCall]
    /\ rank = IdleRank

SpecRace == InitRace /\ [][NextHealthy]_vars

\* ------------------------------------------------------------ a judge that fails
(* A judge that at each stage raises, or returns text that does not parse, *)
(* or answers; the same request is evaluated again and again, without a    *)
(* cache.                                                                  *)
FailingJudge ==
    [score |-> {JudgeRaise, JudgeMalformed, JudgeJson(Some(5), Some(JUSTIFICATION_OK))},
     analyze |-> {JudgeRaise, JudgeMalformed, JudgeJson(None, Some(Lit("<summary>", 50)))},
     improve |-> {JudgeRaise, JudgeMalformed, JudgeJson(None, Some(Lit("<suggestion>", 80)))}]

InitFailing ==
    /\ enable_caching = FALSE
    /\ evaluation_service = None
    /\ redis_client = None
    /\ storeUp = TRUE
    /\ store = [k \in StoreKeys |-> None]
    /\ judge = [a \in Answers |-> FailingJudge]
    /\ running = 0
    /\ call = [c \in Calls |-> IdleCall]
    /\ rank = IdleRank

NextFailing ==
    \/ \E c \in Calls : Arrive(c, Request(AnswerA, None))
    \/ \E c \in Calls : EvaluatorNode(c)
    \/ \E c \in Calls : AnalyzerNode(c)
    \/ \E c \in Calls : ImprovementNode(c)
    \/ \E c \in Calls : SynthesizerNode(c)
    \/ \E c \in Calls : ExtractResponse(c)

SpecFailing == InitFailing /\ [][NextFailing]_vars

\* ------------------------------------------------------------ keys alone
\* Two requests, and a service in any state; the keys are computed one by one.
InitKey ==
    /\ enable_caching \in BOOLEAN
    /\ evaluation_service = Some("EvaluationService")
    /\ redis_client \in {None, Some("Redis")}
    /\ storeUp \in BOOLEAN
    /\ store = [k \in StoreKeys |-> None]
    /\ judge = [a \in Answers |-> SmallJudge]
    /\ running = 0
    /\ \E r1 \in KeyInputs, r2 \in KeyInputs :
          call = [c \in Calls |->
                    IF c = 1 THEN [IdleCall EXCEPT !.answer = r1.answer, !.question = r1.question]
                    ELSE IF c = 2 THEN [IdleCall EXCEPT !.answer = r2.answer, !.question = r2.question]
                    ELSE IdleCall]
    /\ rank = IdleRank

\* cache_key = self._generate_cache_key(candidate_answer, question_context)
GenerateKey(c) ==
    /\ call[c].pc = "idle"
    /\ call[c].answer # <<>>
    /\ call' = [call EXCEPT ![c] =
          [call[c] EXCEPT !.pc = "keyed",
                          !.cache_key = Some(generate_cache_key(call[c].answer,
                                                                call[c].question))]]
    /\ UNCHANGED <<enable_caching, evaluation_service, redis_client, storeUp, store,
                   judge, running, rank>>

NextKey == \E c \in Calls : GenerateKey(c)

SpecKey == InitKey /\ [][NextKey]_vars

\* ------------------------------------------------------------ one request
(* The store as an earlier process may have left it under a key: nothing,  *)
(* a response written by _cache_result, or bytes that are no response      *)
(* (no JSON, a field missing, a field outside the schema).                 *)
StoredResponse ==
    Serialize(EvaluationResponse(Some(4), Some(Lit("<stored summary>", 60)),
                                 Some(Lit("<stored suggestion>", 90))))

LeftInStore ==
    {None, Some(StoredResponse),
     Some([StoredResponse EXCEPT !.fmt = "text"]),
     Some([StoredResponse EXCEPT !.improvement = None]),
     Some([StoredResponse EXCEPT !.score = Some(9)])}

InitPipeline ==
    /\ enable_caching \in BOOLEAN
    /\ evaluation_service = None
    /\ redis_client = None
    /\ storeUp \in BOOLEAN
    /\ \E left \in LeftInStore :
          store = [k \in StoreKeys |->
                      IF k = generate_cache_key(AnswerA, None) THEN left ELSE None]
    /\ judge = [a \in Answers |-> FullJudge]
    /\ running = 0
    /\ call = [c \in Calls |-> IdleCall]
    /\ rank = IdleRank

NextPipeline ==
    \/ \E req \in Inputs : Arrive(1, req)
    \/ PingReturn(1)
    \/ Work(1)
    \/ StoreFails
    \/ StoreRecovers
    \/ \E k \in StoreKeys : Expire(k)

SpecPipeline == InitPipeline /\ [][NextPipeline]_vars

(* graph.invoke is one synchronous call: once evaluate() has started, its  *)
(* steps are taken, up to the next await and after the store has answered. *)
SpecPipelineRuns == SpecPipeline /\ WF_vars(Work(1))

\* ------------------------------------------------------------ the synthesizer alone
(* synthesizer_node as a function of the state it is given: the state      *)
(* evaluate() builds, with the score, the summary and the improvement each *)
(* either still None or set.                                               *)
SynthesizerInputs ==
    {[InitialState EXCEPT !.evaluator_score = sc, !.final_summary = su,
                          !.final_improvement = im] :
        sc \in {None, Some(1), Some(5)},
        su \in {None} \cup {Some(Lit("<summary>", n)) : n \in {4, 50, 200, 201, 250}},
        im \in {None} \cup {Some(Lit("<suggestion>", n)) : n \in {5, 80, 300, 301, 400}}}

InitSynthesizer ==
    /\ enable_caching = FALSE
    /\ evaluation_service = Some("EvaluationService")
    /\ redis_client = None
    /\ storeUp = TRUE
    /\ store = [k \in StoreKeys |-> None]
    /\ judge = [a \in Answers |-> SmallJudge]
    /\ running = 1
    /\ \E st \in SynthesizerInputs :
          call = [c \in Calls |->
                    IF c = 1
                    THEN [IdleCall EXCEPT !.pc = "synthesizer", !.answer = AnswerA,
                                          !.cache_key = Some(generate_cache_key(AnswerA, None)),
                                          !.get_outcome = "skipped", !.state = Some(st)]
                    ELSE IdleCall]
    /\ rank = IdleRank

NextSynthesizer ==
    \/ SynthesizerNode(1)
    \/ ExtractResponse(1)

SpecSynthesizer == InitSynthesizer /\ [][NextSynthesizer]_vars

\* ------------------------------------------------------------ rank_candidates()
\* evaluated_candidates.sort(key=lambda x: x.score, reverse=True): a stable sort.
RECURSIVE InsertByScore(_, _)
InsertByScore(sorted, x) ==
    IF sorted = <<>> THEN <<x>>
    ELSE IF Head(sorted).score >= x.score
    THEN <<Head(sorted)>> \o InsertByScore(Tail(sorted), x)
    ELSE <<x>> \o sorted

RECURSIVE SortByScore(_)
SortByScore(seq) ==
    IF seq = <<>> THEN <<>>
    ELSE InsertByScore(SortByScore(SubSeq(seq, 1, Len(seq) - 1)), seq[Len(seq)])

\* The loop that rebuilds each candidate with current_rank, counting from 1.
FIRST_RANK == 1

AssignRanks(sorted) ==
    [i \in 1..Len(sorted) |->
        RankedCandidate(sorted[i].candidate_id, sorted[i].score, sorted[i].summary,
                        sorted[i].improvement, FIRST_RANK + (i - 1))]

RankedAllValid(ranked) ==
    \A i \in 1..Len(ranked) : RankedCandidateValid(ranked[i].score, ranked[i].rank)

RankingResponse(candidates, total_candidates) ==
    [candidates |-> candidates, total_candidates |-> total_candidates]

\* The tasks of the request: one call per candidate, in the request's order.
Tasks == 1..Len(rank.candidates)

\* The eval_tasks are built and handed to asyncio.gather.
Spawn(batch, question, throwing) ==
    [c \in Calls |->
        IF c \in 1..Len(batch)
        THEN [IdleCall EXCEPT !.pc = "scheduled", !.answer = batch[c].answer,
                              !.question = question,
                              !.candidate_id = batch[c].candidate_id,
                              !.throws = (c \in throwing)]
        ELSE IdleCall]

(* A /rank-candidates request arrives: the dependency, then the tasks.     *)
(* throwing names the candidates whose evaluate() is made to raise.        *)
RankArrive(batch, question, throwing) ==
    /\ running = 0
    /\ rank.pc = "idle"
    /\ \A c \in Calls : call[c].pc = "idle"
    /\ evaluation_service' = Some("EvaluationService")
    /\ IF NeedsInit /\ enable_caching
       THEN /\ redis_client' = Some("Redis")
            /\ rank' = [rank EXCEPT !.pc = "await_ping", !.candidates = batch,
                                    !.question_context = question]
            /\ call' = [c \in Calls |-> [call[c] EXCEPT !.throws = (c \in throwing)]]
       ELSE /\ rank' = [rank EXCEPT !.pc = "gather", !.candidates = batch,
                                    !.question_context = question]
            /\ call' = Spawn(batch, question, throwing)
            /\ UNCHANGED redis_client
    /\ UNCHANGED <<enable_caching, storeUp, store, judge, running>>

\* await self.redis_client.ping() returns or raises; then the tasks are built.
RankPingReturn ==
    /\ running = 0
    /\ rank.pc = "await_ping"
    /\ redis_client' = IF storeUp THEN redis_client ELSE None
    /\ rank' = [rank EXCEPT !.pc = "gather"]
    /\ call' = Spawn(rank.candidates, rank.question_context,
                     {c \in Calls : call[c].throws})
    /\ UNCHANGED <<enable_caching, evaluation_service, storeUp, store, judge, running>>

\* The loop starts the next task: tasks start in the order they were created.
TaskStart(c) ==
    /\ running = 0
    /\ call[c].pc = "scheduled"
    /\ \A d \in 1..(c - 1) : call[d].pc # "scheduled"
    /\ LET e == EnterEvaluate(c, call[c], redis_client) IN
       /\ call' = [call EXCEPT ![c] = e.rec]
       /\ running' = e.holder
    /\ UNCHANGED <<enable_caching, evaluation_service, redis_client, storeUp, store,
                   judge, rank>>

(* asyncio.gather is over: with every task's result, in the tasks' order,  *)
(* or with the first exception a task raised.  Then the sort, the ranks,   *)
(* the response.                                                           *)
GatherReturn ==
    /\ running = 0
    /\ rank.pc = "gather"
    /\ \/ \E c \in Tasks : call[c].task_outcome = "raised"
       \/ \A c \in Tasks : call[c].task_outcome = "returned"
    /\ IF \E c \in Tasks : call[c].task_outcome = "raised"
       THEN rank' = [rank EXCEPT !.pc = "done", !.outcome = "raised"]
       ELSE LET evaluated_candidates == [c \in Tasks |-> Val(call[c].draft)]
                ranked_candidates == AssignRanks(SortByScore(evaluated_candidates))
            IN IF RankedAllValid(ranked_candidates) /\ Len(ranked_candidates) >= 1
               THEN rank' = [rank EXCEPT !.pc = "done", !.outcome = "returned",
                        !.response = Some(RankingResponse(ranked_candidates,
                                                          Len(ranked_candidates)))]
               ELSE rank' = [rank EXCEPT !.pc = "done", !.outcome = "raised"]
    /\ UNCHANGED <<enable_caching, evaluation_service, redis_client, storeUp, store,
                   judge, running, call>>

InitRank ==
    /\ enable_caching \in BOOLEAN
    /\ evaluation_service = None
    /\ redis_client = None
    /\ storeUp \in BOOLEAN
    /\ store = [k \in StoreKeys |-> None]
    /\ judge = RankJudge
    /\ running = 0
    /\ call = [c \in Calls |-> IdleCall]
    /\ rank = IdleRank

NextRank ==
    \/ \E batch \in Batches, question \in {None, Some(QuestionQ)} :
          \E throwing \in {t \in SUBSET (1..Len(batch)) : Cardinality(t) <= 1} :
             RankArrive(batch, question, throwing)
    \/ RankPingReturn
    \/ \E c \in Calls : TaskStart(c)
    \/ \E c \in Calls : Work(c)
    \/ GatherReturn

SpecRank == InitRank /\ [][NextRank]_vars

\* ------------------------------------------------------------ a batch that races
(* A ranking whose candidates all gave the same answer, with a healthy     *)
(* store and the judge that words its summary in one of two ways.          *)
NextRankRace ==
    \/ \E n \in 1..MaxCandidates : RankArrive(SameBatch(n), None, {})
    \/ RankPingReturn
    \/ \E c \in Calls : TaskStart(c)
    \/ \E c \in Calls : Work(c)
    \/ GatherReturn

SpecRankRace == InitRace /\ [][NextRankRace]_vars

\* ------------------------------------------------------------ fallbacks and the cache
(* A judge that at each stage raises or answers, with caching enabled and *)
(* a store that is there and loses nothing.                                *)
RaisingJudge ==
    [score |-> {JudgeRaise, JudgeJson(Some(5), Some(JUSTIFICATION_OK))},
     analyze |-> {JudgeRaise, JudgeJson(None, Some(Lit("<summary>", 50)))},
     improve |-> {JudgeRaise, JudgeJson(None, Some(Lit("<suggestion>", 80)))}]

InitFallbackCached ==
    /\ enable_caching = TRUE
    /\ evaluation_service = None
    /\ redis_client = None
    /\ storeUp = TRUE
    /\ store = [k \in StoreKeys |-> None]
    /\ judge = [a \in Answers |-> RaisingJudge]
    /\ running = 0
    /\ call = [c \in Calls |-> IdleCall]
    /\ rank = IdleRank

SpecFallbackCached == InitFallbackCached /\ [][NextHealthy]_vars

\* ------------------------------------------------------------ the routes
HTTP_200_OK == 200

HTTP_500_INTERNAL_SERVER_ERROR == 500

\* The detail of the HTTPException a route raises from its except branch.
ErrorEnvelope(error, message, details) ==
    [error |-> error, message |-> message, details |-> details]

\* A route that answers an exception with its text alone.
rank_candidates_bare(outcome, response) ==
    IF outcome = "returned"
    THEN [status_code |-> HTTP_200_OK, body |-> Val(response)]
    ELSE [status_code |-> HTTP_500_INTERNAL_SERVER_ERROR,
          body |-> Lit("<str(e)>", 20)]

(* The /evaluate-answer route around evaluate(): what evaluate() returned, *)
(* or, when it raised, the HTTPException whose detail is the envelope.     *)
evaluate_answer(outcome, result) ==
    IF outcome = "returned"
    THEN [status_code |-> HTTP_200_OK, body |-> Val(result)]
    ELSE [status_code |-> HTTP_500_INTERNAL_SERVER_ERROR,
          body |-> ErrorEnvelope("EvaluationError", "Failed to evaluate answer",
                                 [error |-> Lit("<str(e)>", 20)])]

(* The /rank-candidates route around rank_candidates(): the response, or,  *)
(* when it raised, the HTTPException whose detail is the envelope.         *)
rank_candidates(outcome, response) ==
    IF outcome = "returned"
    THEN [status_code |-> HTTP_200_OK, body |-> Val(response)]
    ELSE [status_code |-> HTTP_500_INTERNAL_SERVER_ERROR,
          body |-> ErrorEnvelope("RankingError", "Failed to rank candidates",
                                 [error |-> Lit("<str(e)>", 20)])]

(* Requests of both routes, served by one process.  Asked to score        *)
(* AnswerA the judge raises or answers; the store answers throughout, or   *)
(* raises throughout; in a ranking, the first candidate's evaluate() may   *)
(* raise.                                                                  *)
ServedJudge ==
    [score |-> {JudgeRaise, JudgeJson(Some(5), Some(JUSTIFICATION_OK))},
     analyze |-> {JudgeJson(None, Some(Lit("<summary>", 50)))},
     improve |-> {JudgeJson(None, Some(Lit("<suggestion>", 80)))}]

InitServed ==
    /\ enable_caching \in BOOLEAN
    /\ evaluation_service = None
    /\ redis_client = None
    /\ storeUp \in BOOLEAN
    /\ store = [k \in StoreKeys |-> None]
    /\ judge = [RankJudge EXCEPT ![AnswerA] = ServedJudge]
    /\ running = 0
    /\ call = [c \in Calls |-> IdleCall]
    /\ rank = IdleRank

\* A request comes in.
Received ==
    \/ \E c \in Calls, req \in Inputs : Arrive(c, req)
    \/ \E n \in 1..MaxCandidates :
          \E throwing \in {{}, {1}} : RankArrive(MixedBatch(n), None, throwing)

(* The process goes on: an external call returns or raises and the         *)
(* coroutine that waited for it runs to its next await, or the loop starts *)
(* a task that is ready.                                                   *)
Served ==
    \/ \E c \in Calls : PingReturn(c)
    \/ RankPingReturn
    \/ \E c \in Calls : TaskStart(c)
    \/ \E c \in Calls : Work(c)
    \/ GatherReturn

NextServed == Received \/ Served

SpecServed == InitServed /\ [][NextServed]_vars /\ WF_vars(Served)

\* ------------------------------------------------------------ request validation
ANSWER_MAX == 5000

QUESTION_MAX == 1000

CANDIDATES_MIN == 1

CANDIDATES_MAX == 100

\* What str.strip() removes at both ends.
Whitespace == {" ", "\t", "\n"}

RECURSIVE LStrip(_)
LStrip(v) == IF v # <<>> /\ Head(v) \in Whitespace THEN LStrip(Tail(v)) ELSE v

RECURSIVE RStrip(_)
RStrip(v) ==
    IF v # <<>> /\ v[Len(v)] \in Whitespace THEN RStrip(SubSeq(v, 1, Len(v) - 1)) ELSE v

Strip(v) == RStrip(LStrip(v))

(* A str field with min_length=10 and max_length=5000 and the validator    *)
(* validate_answer, which runs on a value within those lengths.            *)
AnswerFieldValid(v) ==
    /\ Len(v) >= ANSWER_MIN
    /\ Len(v) <= ANSWER_MAX
    /\ Len(Strip(v)) >= ANSWER_MIN

QuestionFieldValid(q) == q = None \/ Len(Val(q)) <= QUESTION_MAX

\* EvaluateAnswerRequest(...) validates; the answer it then holds is stripped.
EvaluateAnswerRequestValid(candidate_answer, question_context) ==
    /\ AnswerFieldValid(candidate_answer)
    /\ QuestionFieldValid(question_context)

EvaluateAnswerRequest(candidate_answer, question_context) ==
    Request(Strip(candidate_answer), question_context)

(* CandidateAnswer(...) validates.  An id is one string here and of its    *)
(* length only min_length=1 is told: it is not the empty string.           *)
CandidateAnswerValid(candidate_id, answer) ==
    /\ candidate_id # ""
    /\ AnswerFieldValid(answer)

\* A validator that lets every list of candidates through.
validate_candidates_any(v) == TRUE

\* RankCandidatesRequest.validate_candidates: the ids are pairwise different.
validate_candidates(v) ==
    Len(v) = Cardinality({v[i].candidate_id : i \in 1..Len(v)})

RankCandidatesRequestValid(candidates, question_context) ==
    /\ \A i \in 1..Len(candidates) :
          CandidateAnswerValid(candidates[i].candidate_id, candidates[i].answer)
    /\ Len(candidates) >= CANDIDATES_MIN
    /\ Len(candidates) <= CANDIDATES_MAX
    /\ validate_candidates(candidates)
    /\ QuestionFieldValid(question_context)

\* The candidates a validated request holds: their answers are stripped.
ValidatedCandidates(candidates) ==
    [i \in 1..Len(candidates) |->
        CandidateAnswer(candidates[i].candidate_id, Strip(candidates[i].answer))]

(* Request bodies as they are posted.  Answers: as long as the minimum,    *)
(* the same between spaces, too short, long enough only with its padding,  *)
(* nothing but spaces, and longer than the maximum.                        *)
Padded(v) == <<" ">> \o v \o <<" ", "\n">>

PostedAnswers ==
    {AnswerA, Padded(AnswerA), Chars(ANSWER_MIN - 1, "a"),
     Padded(Chars(ANSWER_MIN - 3, "a")), Chars(ANSWER_MIN, " "),
     Chars(ANSWER_MAX + 1, "a")}

PostedQuestions == {None, Some(QuestionQ), Some(Chars(QUESTION_MAX + 1, "q"))}

\* Bodies for /evaluate-answer: each answer alone, and AnswerA with each question.
PostedRequests ==
    {Request(a, None) : a \in PostedAnswers}
        \cup {Request(AnswerA, q) : q \in PostedQuestions}

(* Lists of candidates: one to MaxCandidates candidates with ids of their  *)
(* own, none, one more than the maximum, the same id twice (next to each   *)
(* other and apart), an empty id, and an answer that is too short once     *)
(* stripped.                                                               *)
PostedBatches ==
    {MixedBatch(n) : n \in 1..MaxCandidates}
        \cup {<<>>, MixedBatch(CANDIDATES_MAX + 1),
              <<CandidateAnswer("1", AnswerA), CandidateAnswer("1", AnswerB)>>,
              <<CandidateAnswer("1", AnswerA), CandidateAnswer("2", AnswerB),
                CandidateAnswer("1", AnswerC)>>,
              <<CandidateAnswer("", AnswerA)>>,
              <<CandidateAnswer("1", Padded(AnswerA)),
                CandidateAnswer("2", Padded(Chars(ANSWER_MIN - 3, "b")))>>,
              <<CandidateAnswer("1", Padded(AnswerA)), CandidateAnswer("2", AnswerB)>>}

(* A body is posted to /evaluate-answer.  The route function is called     *)
(* with the request once it has validated; a body that does not validate   *)
(* is refused and the route function does not run.                         *)
PostEvaluateAnswer(c, candidate_answer, question_context) ==
    IF EvaluateAnswerRequestValid(candidate_answer, question_context)
    THEN Arrive(c, EvaluateAnswerRequest(candidate_answer, question_context))
    ELSE /\ running = 0
         /\ c \in 1..MaxCalls
         /\ call[c].pc = "idle"
         /\ \A d \in 1..(c - 1) : call[d].pc # "idle"
         /\ rank.pc = "idle"
         /\ call' = [call EXCEPT ![c] = [IdleCall EXCEPT !.pc = "rejected",
                                                         !.answer = candidate_answer,
                                                         !.question = question_context]]
         /\ UNCHANGED <<enable_caching, evaluation_service, redis_client, storeUp,
                        store, judge, running, rank>>

\* A body is posted to /rank-candidates.
PostRankCandidates(candidates, question_context) ==
    IF RankCandidatesRequestValid(candidates, question_context)
    THEN RankArrive(ValidatedCandidates(candidates), question_context, {})
    ELSE /\ running = 0
         /\ rank.pc = "idle"
         /\ \A c \in Calls : call[c].pc = "idle"
         /\ rank' = [rank EXCEPT !.pc = "rejected", !.candidates = candidates,
                                 !.question_context = question_context]
         /\ UNCHANGED <<enable_caching, evaluation_service, redis_client, storeUp,
                        store, judge, running, call>>

Posted ==
    \/ \E c \in Calls, req \in PostedRequests :
          PostEvaluateAnswer(c, req.answer, req.question)
    \/ \E b \in PostedBatches, q \in PostedQuestions : PostRankCandidates(b, q)

NextPosted == Posted \/ Served

SpecPosted == InitServed /\ [][NextPosted]_vars

\* ============================================================ properties
Done(c) == call[c].pc = "done"

PIPELINE == <<"evaluator", "analyzer", "improvement", "synthesizer">>

\* A response within the limits of the result: 1..5, at most 200, at most 300.
WithinLimits(r) ==
    /\ r.score # None
    /\ Val(r.score) \in 1..5
    /\ r.summary # None
    /\ TextLen(Val(r.summary)) <= 200
    /\ r.improvement # None
    /\ TextLen(Val(r.improvement)) <= 300

(* C1: whatever the judge does at the three stages (a valid reply, a       *)
(* malformed one, an exception), an evaluate() that has ended has returned *)
(* a result with a score in 1..5, a summary of at most 200 characters and  *)
(* an improvement of at most 300.  Specification: SpecPipeline.           *)
C1_ResultWithinLimits ==
    \A c \in Calls :
        Done(c) =>
            /\ call[c].outcome = "returned"
            /\ call[c].result # None
            /\ WithinLimits(Val(call[c].result))

\* C1's case: the judge failed at all three stages and the fallbacks were returned.
C1_AllStagesFailed ==
    \E c \in Calls :
        /\ Done(c)
        /\ call[c].judge_calls = 3
        /\ call[c].nodes_run = PIPELINE
        /\ call[c].result =
              Some(EvaluationResponse(Some(3), Some(SUMMARY_FALLBACK), Some(SUGGESTION_FALLBACK)))

\* The request of rank_candidates has ended by returning a response.
RankReturned == rank.outcome = "returned" /\ rank.response # None

RankedList == Val(rank.response).candidates

\* The place of a candidate id in the request.
PlaceOf(id) == CHOOSE i \in 1..Len(rank.candidates) : rank.candidates[i].candidate_id = id

SortedByScore(list) ==
    \A i \in 1..Len(list), j \in 1..Len(list) :
        i < j =>
            \/ list[i].score > list[j].score
            \/ /\ list[i].score = list[j].score
               /\ PlaceOf(list[i].candidate_id) < PlaceOf(list[j].candidate_id)

(* C2: a ranking request in which one candidate's evaluate() raises still  *)
(* ends with a response: total_candidates is N, and the failing candidate  *)
(* is in it with score 3 and summary "Evaluation failed", ranked among the *)
(* others by that score.  Specification: SpecRank.                        *)
C2_OneFailureKeepsBatch ==
    (rank.pc = "done" /\ \E c \in Tasks : call[c].throws) =>
        /\ RankReturned
        /\ Val(rank.response).total_candidates = Len(rank.candidates)
        /\ \A c \in Tasks :
              call[c].throws =>
                 \E i \in 1..Len(RankedList) :
                    /\ RankedList[i].candidate_id = call[c].candidate_id
                    /\ RankedList[i].score = 3
                    /\ RankedList[i].summary = EVALUATION_FAILED
        /\ SortedByScore(RankedList)

(* C3: rank_candidates ends only when every candidate has a draft, and     *)
(* with a response that holds each candidate id of the request exactly     *)
(* once: N entries, total_candidates N.  Specification: SpecRank.         *)
C3_EveryCandidateOnce ==
    rank.pc = "done" =>
        /\ \A c \in Tasks : call[c].task_outcome # "none"
        /\ RankReturned
        /\ Len(RankedList) = Len(rank.candidates)
        /\ Val(rank.response).total_candidates = Len(rank.candidates)
        /\ \A k \in 1..Len(rank.candidates) :
              Cardinality({i \in 1..Len(RankedList) :
                  RankedList[i].candidate_id = rank.candidates[k].candidate_id}) = 1

(* C4: the response of rank_candidates lists the candidates by score,      *)
(* highest first, and candidates of equal score in the order of the        *)
(* request: scores 2,5,5,1 come out as second, third, first, fourth.       *)
(* Specification: SpecRank.                                               *)
C4_ScoreOrderStable ==
    rank.pc = "done" =>
        /\ RankReturned
        /\ SortedByScore(RankedList)
        /\ rank.candidates = MixedBatch(4) =>
              [i \in 1..4 |-> RankedList[i].candidate_id] = <<"2", "3", "1", "4">>

(* C5: in the response of rank_candidates the entry at place i has rank i: *)
(* the ranks are 1..N, equal scores included.  Specification: SpecRank.   *)
C5_RanksAreDense ==
    rank.pc = "done" =>
        /\ RankReturned
        /\ Len(RankedList) = Len(rank.candidates)
        /\ \A i \in 1..Len(RankedList) : RankedList[i].rank = i

(* C6: with the store healthy and nothing expired, a call that arrives     *)
(* after a call with the same answer and question has ended returns the    *)
(* same result and does not call the judge, however the first call's       *)
(* pipeline run ended.  Specification: SpecHealthy.                       *)
C6_SecondCallFromCache ==
    \A c \in Calls, d \in Calls :
        ( /\ Done(d)
          /\ c \in call[d].preceded_by
          /\ call[c].answer = call[d].answer
          /\ call[c].question = call[d].question ) =>
            /\ call[d].result = call[c].result
            /\ call[d].judge_calls = 0

\* The bytes are a JSON object that is a response of the schema.
IsStoredResponse(bytes) ==
    /\ bytes.fmt = "json"
    /\ bytes.score # None
    /\ Val(bytes.score) \in 1..5
    /\ bytes.summary # None
    /\ TextLen(Val(bytes.summary)) \in 10..200
    /\ bytes.improvement # None
    /\ TextLen(Val(bytes.improvement)) \in 10..300

(* C7: a call whose cache read returned bytes that are a valid response    *)
(* has ended by returning that response; no node ran and the judge was     *)
(* not called.  Specification: SpecPipeline.                              *)
C7_HitSkipsPipeline ==
    \A c \in Calls :
        (call[c].read # None /\ IsStoredResponse(Val(call[c].read))) =>
            /\ Done(c)
            /\ call[c].outcome = "returned"
            /\ call[c].result # None
            /\ Val(call[c].result).score = Val(call[c].read).score
            /\ Val(call[c].result).summary = Val(call[c].read).summary
            /\ Val(call[c].result).improvement = Val(call[c].read).improvement
            /\ call[c].nodes_run = <<>>
            /\ call[c].judge_calls = 0

\* C7's case: the store held a response under the key and the call read it.
C7_Hit ==
    \E c \in Calls :
        /\ Done(c)
        /\ call[c].get_outcome = "hit"
        /\ call[c].read = Some(StoredResponse)

QuestionOrEmpty(q) == IF q = None THEN <<>> ELSE Val(q)

Keyed(c) == call[c].pc = "keyed"

(* C8: two requests that differ in the answer or in the question (None     *)
(* taken as the empty string) have different keys, also when they differ   *)
(* only in where a ":" sits.  Specification: SpecKey.                     *)
C8_DistinctRequestsDistinctKeys ==
    \A c \in Calls, d \in Calls :
        ( /\ Keyed(c)
          /\ Keyed(d)
          /\ \/ call[c].answer # call[d].answer
             \/ QuestionOrEmpty(call[c].question) # QuestionOrEmpty(call[d].question) ) =>
            call[c].cache_key # call[d].cache_key

(* C9: the key is "eval:" and the digest of answer + ":" + (question or    *)
(* ""); the same pair has the same key, whatever the state of the service; *)
(* a question with one more space at its end has another key.              *)
(* Specification: SpecKey.                                                 *)
C9_KeyIsFunctionOfPair ==
    \A c \in Calls, d \in Calls :
        (Keyed(c) /\ Keyed(d)) =>
            /\ Val(call[c].cache_key).prefix = "eval:"
            /\ Val(call[c].cache_key).digest =
                  [md5 |-> call[c].answer \o <<":">> \o QuestionOrEmpty(call[c].question)]
            /\ (call[c].answer = call[d].answer /\ call[c].question = call[d].question) =>
                  call[c].cache_key = call[d].cache_key
            /\ ( /\ call[c].answer = call[d].answer
                 /\ QuestionOrEmpty(call[d].question) =
                       QuestionOrEmpty(call[c].question) \o <<" ">> ) =>
                  call[c].cache_key # call[d].cache_key

\* C9's case: two keyed requests, the second with one more space after the question.
C9_SpaceAppended ==
    \E c \in Calls, d \in Calls :
        /\ Keyed(c)
        /\ Keyed(d)
        /\ call[c].answer = call[d].answer
        /\ call[c].question = Some(<<"c">>)
        /\ call[d].question = Some(<<"c", " ">>)

\* The call has ended and the store never answered it, on the read or on the write.
Degraded(c) ==
    /\ Done(c)
    /\ call[c].get_outcome \in {"skipped", "failed"}
    /\ call[c].set_outcome \in {"skipped", "failed", "none"}

\* The call has ended; it found the store healthy and nothing under its key.
HealthyMiss(d) ==
    /\ Done(d)
    /\ call[d].get_outcome = "absent"
    /\ call[d].set_outcome \in {"written", "none"}

(* C10: a call that the store never answered (no client since startup, or  *)
(* get and set both failing) has run the four nodes and returned a result  *)
(* within the limits; no exception left evaluate(); and the result is the  *)
(* one a call with a healthy, empty cache returns for the same final       *)
(* fields of the graph.  Specification: Spec.                             *)
C10_DegradedCacheSameResult ==
    \A c \in Calls :
        Degraded(c) =>
            /\ call[c].outcome = "returned"
            /\ call[c].nodes_run = PIPELINE
            /\ call[c].result # None
            /\ WithinLimits(Val(call[c].result))
            /\ \A d \in Calls :
                  (HealthyMiss(d) /\ call[d].final = call[c].final) =>
                      call[d].result = call[c].result

(* C10's case: a call whose write failed and a call served by a healthy,   *)
(* empty cache ended on the same final fields.                             *)
C10_DegradedAndHealthy ==
    \E c \in Calls, d \in Calls :
        /\ Degraded(c)
        /\ call[c].set_outcome = "failed"
        /\ HealthyMiss(d)
        /\ call[d].set_outcome = "written"
        /\ call[d].final = call[c].final

\* What evaluate() makes of the final fields of a run: they are the response
\* when the schema takes them, and the neutral response stands in otherwise.
ResultOfRun(final) ==
    IF IsStoredResponse(Serialize(final)) THEN final ELSE NEUTRAL_RESPONSE

(* C11: a call whose cache read returned bytes that are no valid response  *)
(* (no JSON, a field missing, a field outside the schema) goes on as after *)
(* a miss: the four nodes run, the judge is called at each of the three    *)
(* stages, and evaluate() returns the result of that run; no exception     *)
(* leaves it.  Specification: SpecPipeline.                                *)
C11_BadBytesAreAMiss ==
    \A c \in Calls :
        (call[c].read # None /\ ~IsStoredResponse(Val(call[c].read))) =>
            /\ call[c].get_outcome = "invalid"
            /\ call[c].pc \in {"evaluator", "analyzer", "improvement", "synthesizer",
                               "extract", "await_set", "done"}
            /\ Done(c) =>
                  /\ call[c].outcome = "returned"
                  /\ call[c].nodes_run = PIPELINE
                  /\ call[c].judge_calls = 3
                  /\ call[c].final # None
                  /\ call[c].result = Some(ResultOfRun(Val(call[c].final)))

\* C11's case: the store held text that is no JSON, and the call ran the pipeline.
C11_NoJsonRead ==
    \E c \in Calls :
        /\ Done(c)
        /\ call[c].read # None
        /\ Val(call[c].read).fmt = "text"
        /\ call[c].nodes_run = PIPELINE

(* C12: a call whose cache write failed has returned the response built    *)
(* from the final fields of its run: not the neutral response, and no      *)
(* exception.  Specification: Spec.                                        *)
C12_WriteFailureSwallowed ==
    \A c \in Calls :
        (Done(c) /\ call[c].set_outcome = "failed") =>
            /\ call[c].outcome = "returned"
            /\ call[c].nodes_run = PIPELINE
            /\ call[c].result = call[c].final
            /\ call[c].result # Some(NEUTRAL_RESPONSE)

\* C12's case: the read missed on a healthy store, and the write then failed.
C12_WriteFailed ==
    \E c \in Calls :
        /\ Done(c)
        /\ call[c].get_outcome = "absent"
        /\ call[c].set_outcome = "failed"
        /\ call[c].judge_calls = 3

\* The call is inside a judging stage: its call to the judge has not returned.
JudgeOutstanding(c) == call[c].pc \in {"evaluator", "analyzer", "improvement"}

\* The call is a task of the batch that has still to start or to go on.
Waiting(d) == call[d].pc \in {"scheduled", "await_get", "await_set"}

(* C13: in a batch, while one candidate's call to the judge is outstanding *)
(* the other candidates' evaluations can go on: if any of them is waiting  *)
(* to start or to continue, one of them can take its next step before the  *)
(* judge's reply arrives.  Specification: SpecRank.                        *)
C13_SiblingsGoOn ==
    \A c \in Calls :
        (JudgeOutstanding(c) /\ \E d \in Calls \ {c} : Waiting(d)) =>
            ENABLED (\E d \in Calls \ {c} : TaskStart(d) \/ Work(d))

\* The call and another call were both under way at some moment.
Concurrent(c, d) ==
    /\ c # d
    /\ call[c].pc # "idle"
    /\ call[d].pc # "idle"
    /\ c \notin call[d].preceded_by
    /\ d \notin call[c].preceded_by

(* C14: two concurrent calls for the same key that is not in the store can *)
(* both miss and both run the pipeline, and each writes the key; whenever  *)
(* a call's write returns, the store holds under the key what that call    *)
(* wrote, whatever another call had written there.                         *)
(* Specification: SpecRace.                                                *)
C14_LastWriteWins ==
    [][\A c \in Calls :
          (call[c].pc = "await_set" /\ call'[c].set_outcome = "written") =>
              /\ call'[c].result # None
              /\ store'[Val(call[c].cache_key)] = Some(Serialize(Val(call'[c].result)))]_vars

(* C14's case: two concurrent calls with one key both missed, both called  *)
(* the judge three times and both wrote; their results differ and the      *)
(* store holds one of them.                                                *)
C14_BothMissBothWrite ==
    \E c \in Calls, d \in Calls :
        /\ Concurrent(c, d)
        /\ Done(c)
        /\ Done(d)
        /\ call[c].cache_key = call[d].cache_key
        /\ call[c].get_outcome = "absent"
        /\ call[d].get_outcome = "absent"
        /\ call[c].judge_calls = 3
        /\ call[d].judge_calls = 3
        /\ call[c].set_outcome = "written"
        /\ call[d].set_outcome = "written"
        /\ call[c].result # call[d].result
        /\ store[Val(call[d].cache_key)] = Some(Serialize(Val(call[d].result)))

(* C15: once concurrent calls with the same answer and question have all   *)
(* ended, the store holds one value under their key and it is the value    *)
(* each of them returned.  Specification: SpecRace.                        *)
C15_CachedValueIsEveryCallersResult ==
    \A c \in Calls, d \in Calls :
        ( /\ Concurrent(c, d)
          /\ Done(c)
          /\ Done(d)
          /\ call[c].answer = call[d].answer
          /\ call[c].question = call[d].question ) =>
            /\ store[Val(call[c].cache_key)] # None
            /\ call[c].result # None
            /\ store[Val(call[c].cache_key)] = Some(Serialize(Val(call[c].result)))

\* The run of the graph is under way or just over: the call holds its state.
InRun(c) == call[c].state # None

(* C16: a run of the graph executes evaluator, analyzer, improvement,      *)
(* synthesizer in that order, each once: at any moment the nodes run are a *)
(* prefix of that list, the node due is the next of the list, and          *)
(* current_agent is None before the first node and the last node run       *)
(* afterwards; a call that ran a node and ended ran all four.              *)
(* Specification: SpecPipeline.                                            *)
C16_FixedStageOrder ==
    \A c \in Calls :
        LET n == Len(call[c].nodes_run) IN
        /\ n <= 4
        /\ call[c].nodes_run = SubSeq(PIPELINE, 1, n)
        /\ InRun(c) =>
              /\ call[c].pc = IF n < 4 THEN PIPELINE[n + 1] ELSE "extract"
              /\ Val(call[c].state).current_agent =
                    IF n = 0 THEN None ELSE Some(PIPELINE[n])
        /\ (~InRun(c) /\ n > 0) => n = 4

\* C16's case: the four nodes have run and current_agent is the synthesizer.
C16_AllFourRan ==
    \E c \in Calls :
        /\ InRun(c)
        /\ call[c].pc = "extract"
        /\ call[c].nodes_run = PIPELINE
        /\ Val(call[c].state).current_agent = Some("synthesizer")

\* The state holds the fallback of the scoring stage: its judge call failed.
ScoreStageFailed(st) ==
    st.evaluator_justification \in
        {Some(JUSTIFICATION_CAPABILITY), Some(JUSTIFICATION_PARSE), Some(JUSTIFICATION_SCHEMA)}

AnalyzeStageFailed(st) == st.analyzer_strengths = Some(STRENGTHS_FALLBACK)

ImproveStageFailed(st) == st.improvement_suggestion = Some(SUGGESTION_FALLBACK)

StageFailed(c) ==
    /\ InRun(c)
    /\ \/ ScoreStageFailed(Val(call[c].state))
       \/ AnalyzeStageFailed(Val(call[c].state))
       \/ ImproveStageFailed(Val(call[c].state))

SynthesizerRan(c) ==
    /\ Len(call[c].nodes_run) = 4
    /\ call[c].nodes_run[4] = "synthesizer"

(* C17: after a stage whose judge call raised or whose reply did not parse *)
(* the run goes on: the synthesizer runs in the end, and with it every     *)
(* stage in between.  Specification: SpecPipelineRuns, whose one call is   *)
(* call 1.                                                                 *)
C17_FailureNeverStopsRun ==
    StageFailed(1) ~> (SynthesizerRan(1) /\ call[1].nodes_run = PIPELINE)

\* C17's case: all three judging stages failed and the synthesizer has run.
C17_FailedAndSynthesized ==
    \E c \in Calls :
        /\ InRun(c)
        /\ ScoreStageFailed(Val(call[c].state))
        /\ AnalyzeStageFailed(Val(call[c].state))
        /\ ImproveStageFailed(Val(call[c].state))
        /\ SynthesizerRan(c)

(* C18: once a stage's judge call has raised or its reply has failed to    *)
(* parse, the state holds that stage's fallback values and an error        *)
(* annotation that is not None.  Specification: SpecPipeline.              *)
C18_FailureLeavesErrorAnnotation ==
    \A c \in Calls :
        StageFailed(c) => Val(call[c].state).error # None

\* The schema of the response refuses the final fields of the run.
FinalRefused(c) ==
    /\ call[c].final # None
    /\ ~IsStoredResponse(Serialize(Val(call[c].final)))

(* C19: when building the response from the final fields raises, the call *)
(* ends by returning score 3, "Evaluation encountered an error", "Please   *)
(* try again or contact support"; the exception does not leave            *)
(* evaluate().  Specification: SpecPipeline.                               *)
C19_NeutralOnEscapedException ==
    \A c \in Calls :
        (Done(c) /\ FinalRefused(c)) =>
            /\ call[c].outcome = "returned"
            /\ call[c].result =
                  Some(EvaluationResponse(Some(3),
                         Some(Lit("Evaluation encountered an error", 31)),
                         Some(Lit("Please try again or contact support", 35))))

\* C19's case: the run ended on a summary the schema refuses, and the call is over.
C19_ResponseRefused ==
    \E c \in Calls :
        /\ Done(c)
        /\ call[c].nodes_run = PIPELINE
        /\ FinalRefused(c)
        /\ TextLen(Val(Val(call[c].final).summary)) < 10

(* C20: the result of a call that ran the graph is made of the final       *)
(* fields of the run: the score of the scoring stage, the summary of the   *)
(* analysis (cut when over 200), the suggestion (cut when over 300),       *)
(* however short the summary or the suggestion.                            *)
(* Specification: SpecPipeline.                                            *)
C20_ResultIsFinalState ==
    \A c \in Calls :
        (Done(c) /\ call[c].nodes_run = PIPELINE) =>
            /\ call[c].final # None
            /\ call[c].result = call[c].final

\* The synthesizer has run and the call still holds the final state.
Synthesized(c) == InRun(c) /\ call[c].pc = "extract"

(* What the synthesizer is to leave of a text of length t.n under the      *)
(* limit: the text as it was when t.n <= limit, and otherwise its first    *)
(* limit - 3 characters and "...", limit characters in all.                *)
TruncatedTo(t, limit) ==
    IF t.n <= limit
    THEN t.cut = 0 /\ TextLen(t) = t.n
    ELSE t.cut = limit - 3 /\ TextLen(t) = limit

(* C21: after the synthesizer a summary that had at most 200 characters is *)
(* unchanged and a longer one is its first 197 characters and "...", 200   *)
(* in all; an improvement of at most 300 is unchanged and a longer one is  *)
(* its first 297 and "...", 300 in all.  Specification: SpecPipeline.      *)
C21_TruncationToLimits ==
    \A c \in Calls :
        Synthesized(c) =>
            LET st == Val(call[c].state) IN
            /\ st.final_summary # None
            /\ st.final_improvement # None
            /\ TruncatedTo(Val(st.final_summary), 200)
            /\ TruncatedTo(Val(st.final_improvement), 300)

\* C21's case: a summary of 250 came out at 200 and an improvement of 400 at 300.
C21_LongTextsCut ==
    \E c \in Calls :
        /\ Synthesized(c)
        /\ LET st == Val(call[c].state) IN
           /\ Val(st.final_summary).n = 250
           /\ TextLen(Val(st.final_summary)) = 200
           /\ Val(st.final_improvement).n = 400
           /\ TextLen(Val(st.final_improvement)) = 300

(* C22: when the synthesizer is given a state whose score, summary or      *)
(* improvement is still None, as evaluate() builds it, it writes the       *)
(* default for that field: score 3, "No summary available", "No            *)
(* improvement suggestion available".  Specification: SpecSynthesizer.     *)
C22_SynthesizerDefaults ==
    [][\A c \in Calls :
          (call[c].pc = "synthesizer" /\ call'[c].pc = "extract") =>
              LET given == Val(call[c].state)
                  left == Val(call'[c].state)
              IN /\ given.evaluator_score = None => left.final_score = Some(3)
                 /\ given.final_summary = None =>
                       left.final_summary = Some(Lit("No summary available", 20))
                 /\ given.final_improvement = None =>
                       left.final_improvement =
                           Some(Lit("No improvement suggestion available", 35))]_vars

\* The fields the three judging stages write: score and justification; strengths,
\* weaknesses and summary; the suggestion.
StageOutputs ==
    {"evaluator_score", "evaluator_justification", "analyzer_strengths",
     "analyzer_weaknesses", "final_summary", "improvement_suggestion"}

(* C23: within a run no node changes a field that an earlier stage has     *)
(* set: the score and justification, the strengths, weaknesses and summary *)
(* of the analysis, and the suggestion keep the value their stage wrote    *)
(* to the end of the run.  Specification: SpecPipeline.                    *)
C23_EarlierOutputsKept ==
    [][\A c \in Calls :
          (call[c].state # None /\ call'[c].state # None) =>
              \A k \in StageOutputs :
                  Val(call[c].state)[k] # None =>
                      Val(call'[c].state)[k] = Val(call[c].state)[k]]_vars

\* All of the fields are set in the state.
AllSet(st, fields) == \A k \in fields : st[k] # None

(* C24: in a run, once a stage is over its outputs are set and stay set:   *)
(* score and justification after the evaluator; strengths, weaknesses and  *)
(* summary after the analyzer; the suggestion after the improvement node;  *)
(* final score, summary and improvement after the synthesizer; whether the *)
(* stage succeeded or fell back.  Specification: SpecPipeline.             *)
C24_OutputsSetAfterStage ==
    \A c \in Calls :
        InRun(c) =>
            LET st == Val(call[c].state)
                n == Len(call[c].nodes_run)
            IN /\ n >= 1 => AllSet(st, {"evaluator_score", "evaluator_justification"})
               /\ n >= 2 => AllSet(st, {"analyzer_strengths", "analyzer_weaknesses",
                                        "final_summary"})
               /\ n >= 3 => AllSet(st, {"improvement_suggestion", "final_improvement"})
               /\ n >= 4 => AllSet(st, {"final_score", "final_summary", "final_improvement"})

\* C24's case: the improvement stage fell back on a reply without a suggestion,
\* after an analysis that succeeded, and the synthesizer has run.
C24_SetAfterFallback ==
    \E c \in Calls :
        /\ Synthesized(c)
        /\ ImproveStageFailed(Val(call[c].state))
        /\ ~AnalyzeStageFailed(Val(call[c].state))
        /\ AllSet(Val(call[c].state), {"final_score", "final_summary", "final_improvement",
                                       "improvement_suggestion"})

\* The judge's reply to the scoring call is no integer score in 1..5 with a
\* justification: the call raised, or the text is no such JSON.
ScoreReplyBad(reply) ==
    \/ reply.kind # "json"
    \/ reply.score = None
    \/ Val(reply.score) \notin 1..5
    \/ reply.text = None

\* The judge's reply carries a text of a length within lo..hi.
TextReplyWithin(reply, lo, hi) ==
    /\ reply.kind = "json"
    /\ reply.text # None
    /\ TextLen(Val(reply.text)) \in lo..hi

(* C25: when the scoring call raised or its reply was no integer score in  *)
(* 1..5 with a justification, the score in the state after that stage is   *)
(* 3, it stays 3 to the end of the run, and 3 is the score of the result   *)
(* the call returns.  Specification: SpecPipeline.                         *)
C25_ScoreFallbackIsThree ==
    \A c \in Calls :
        (Len(call[c].judged) >= 1 /\ ScoreReplyBad(call[c].judged[1].reply)) =>
            /\ InRun(c) => Val(call[c].state).evaluator_score = Some(3)
            /\ Synthesized(c) => Val(call[c].state).final_score = Some(3)
            /\ Done(c) =>
                  /\ call[c].result # None
                  /\ Val(call[c].result).score = Some(3)

(* C25's case: the judge wrote a score of 7, the analysis and the          *)
(* suggestion succeeded, and the result carries them with score 3.         *)
C25_OutOfRangeScore ==
    \E c \in Calls :
        /\ Done(c)
        /\ Len(call[c].judged) = 3
        /\ call[c].judged[1].reply.score = Some(7)
        /\ TextReplyWithin(call[c].judged[2].reply, 10, 200)
        /\ TextReplyWithin(call[c].judged[3].reply, 10, 300)
        /\ Val(call[c].result).score = Some(3)
        /\ Val(call[c].result).summary = call[c].judged[2].reply.text
        /\ Val(call[c].result).improvement = call[c].judged[3].reply.text

\* The number of judging nodes (evaluator, analyzer, improvement) among n nodes run.
JudgingNodesAmong(n) == IF n < 3 THEN n ELSE 3

(* C26: a run calls the judge at most once in each of the evaluator, the   *)
(* analyzer and the improvement node and not in the synthesizer: at any    *)
(* moment the calls made are no more than the judging nodes run, three at  *)
(* most, also when a call failed.  Specification: SpecPipeline.            *)
C26_OneJudgeCallPerStage ==
    \A c \in Calls :
        /\ call[c].judge_calls <= JudgingNodesAmong(Len(call[c].nodes_run))
        /\ call[c].judge_calls <= 3
        /\ Len(call[c].judged) <= 3
        /\ \A i \in 1..Len(call[c].judged) : call[c].judged[i].node = PIPELINE[i]

\* C26's case: the judge raised at each of the three stages; three calls were made.
C26_ThreeFailuresThreeCalls ==
    \E c \in Calls :
        /\ Done(c)
        /\ Len(call[c].judged) = 3
        /\ \A i \in 1..3 : call[c].judged[i].reply = JudgeRaise
        /\ call[c].judge_calls = 3

\* The judge's call failed: it raised, or its reply did not parse.
ReplyFailed(reply) == reply.kind \in {"raise", "malformed"}

\* Two replies that are the same, or that are both failures of either kind.
SameButKindOfFailure(r1, r2) == r1 = r2 \/ (ReplyFailed(r1) /\ ReplyFailed(r2))

\* Two runs of the same request whose judge replies differ at most in how a
\* failed call failed.
SameButKindsOfFailure(c, d) ==
    /\ call[c].answer = call[d].answer
    /\ call[c].question = call[d].question
    /\ Len(call[c].judged) = 3
    /\ Len(call[d].judged) = 3
    /\ \A i \in 1..3 : SameButKindOfFailure(call[c].judged[i].reply, call[d].judged[i].reply)

(* C27: two calls with the same request whose runs differ only in whether  *)
(* a failed judge call raised or returned a reply that did not parse       *)
(* return the same result.  Specification: SpecFailing.                    *)
C27_FailureKindsIndistinguishable ==
    \A c \in Calls, d \in Calls :
        (Done(c) /\ Done(d) /\ SameButKindsOfFailure(c, d)) =>
            call[c].result = call[d].result

(* C27's case: in one run the judge raised at every stage, in the other    *)
(* its reply did not parse at any, and both calls have returned.           *)
C27_RaisedAndUnparsed ==
    \E c \in Calls, d \in Calls :
        /\ Done(c)
        /\ Done(d)
        /\ SameButKindsOfFailure(c, d)
        /\ \A i \in 1..3 : call[c].judged[i].reply = JudgeRaise
        /\ \A i \in 1..3 : call[d].judged[i].reply = JudgeMalformed
        /\ call[c].result # None

\* The score the scoring stage writes on a reply of the judge.
ScoreWritten(reply) == IF ScoreReplyBad(reply) THEN 3 ELSE Val(reply.score)

\* The weaknesses the analysis stage writes on a reply of the judge.
WeaknessesWritten(reply) ==
    IF reply.kind = "json" /\ reply.text # None
    THEN Lit("<weaknesses>", 40)
    ELSE Lit("Unable to analyze weaknesses", 28)

(* C28: in a run a stage is given what the stages before it wrote: the     *)
(* score passed to the analysis and to the improvement stage is the score  *)
(* the scoring stage wrote, and the weaknesses passed to the improvement   *)
(* stage are those the analysis wrote.  Specification: SpecPipeline.       *)
C28_StagesSeeEarlierUpdates ==
    \A c \in Calls :
        LET j == call[c].judged IN
        /\ Len(j) >= 1 => (j[1].score = None /\ j[1].weaknesses = None)
        /\ Len(j) >= 2 =>
              /\ j[2].score = Some(ScoreWritten(j[1].reply))
              /\ InRun(c) => j[2].score = Val(call[c].state).evaluator_score
        /\ Len(j) >= 3 =>
              /\ j[3].score = Some(ScoreWritten(j[1].reply))
              /\ j[3].weaknesses = Some(WeaknessesWritten(j[2].reply))
              /\ InRun(c) => j[3].weaknesses = Val(call[c].state).analyzer_weaknesses

(* C28's case: the judge scored 1 and the analysis succeeded; the          *)
(* improvement stage was given score 1 and the weaknesses of the analysis. *)
C28_ImprovementGivenBoth ==
    \E c \in Calls :
        /\ InRun(c)
        /\ Len(call[c].judged) = 3
        /\ call[c].judged[1].reply.score = Some(1)
        /\ call[c].judged[2].score = Some(1)
        /\ call[c].judged[3].score = Some(1)
        /\ call[c].judged[3].weaknesses = Some(Lit("<weaknesses>", 40))

(* C29: every request ends in a response.  While every external call that  *)
(* is outstanding returns or raises, an /evaluate-answer request that has  *)
(* come in is eventually answered with status 200 and a response within    *)
(* the schema's limits or with status 500 and the envelope of error,       *)
(* message and details; and so is a /rank-candidates request, with a       *)
(* ranking whose candidates are all within the schema or with the          *)
(* envelope.  Specification: SpecServed.                                   *)
IsEnvelope(resp) ==
    /\ resp.status_code = HTTP_500_INTERNAL_SERVER_ERROR
    /\ DOMAIN resp.body = {"error", "message", "details"}

EvaluateRequest(c) == call[c].pc # "idle" /\ call[c].candidate_id = ""

EvaluateAnswered(c) ==
    /\ Done(c)
    /\ LET resp == evaluate_answer(call[c].outcome, call[c].result) IN
       \/ resp.status_code = HTTP_200_OK /\ WithinLimits(resp.body)
       \/ IsEnvelope(resp)

RankAnswered ==
    /\ rank.pc = "done"
    /\ LET resp == rank_candidates(rank.outcome, rank.response) IN
       \/ /\ resp.status_code = HTTP_200_OK
          /\ RankedAllValid(resp.body.candidates)
          /\ resp.body.total_candidates = Len(rank.candidates)
       \/ IsEnvelope(resp)

C29_EveryRequestEndsInResponse ==
    /\ \A c \in 1..MaxCalls : EvaluateRequest(c) ~> EvaluateAnswered(c)
    /\ (rank.pc # "idle") ~> RankAnswered

\* C29 witness: a ranking whose judge was asked has ended in the envelope.
C29_RankingEndedInEnvelope ==
    /\ RankAnswered
    /\ rank.outcome = "raised"
    /\ \E c \in Tasks : call[c].judge_calls > 0

(* C30: a request that is out of range is refused at validation.  An       *)
(* /evaluate-answer request that has come in with an answer shorter than   *)
(* 10 characters once trimmed, or longer than 5000, or with a question     *)
(* longer than 1000, has no key, no cache read, no stage run and no judge  *)
(* call; a /rank-candidates request that has come in with an id twice, or  *)
(* with no candidate or more than 100, or with such an answer or question  *)
(* or an empty id, has no task at all: no candidate of it is read from the *)
(* cache, staged or judged.  Specification: SpecPosted.                    *)
AnswerOutOfRange(v) == Len(Strip(v)) < 10 \/ Len(v) > 5000

QuestionOutOfRange(q) == q # None /\ Len(Val(q)) > 1000

DuplicateId(candidates) ==
    \E i, j \in 1..Len(candidates) :
        i # j /\ candidates[i].candidate_id = candidates[j].candidate_id

BatchOutOfRange(candidates) ==
    \/ Len(candidates) < 1
    \/ Len(candidates) > 100
    \/ \E i \in 1..Len(candidates) :
          candidates[i].candidate_id = "" \/ AnswerOutOfRange(candidates[i].answer)

Untouched(c) ==
    /\ call[c].cache_key = None
    /\ call[c].get_outcome = "none"
    /\ call[c].nodes_run = <<>>
    /\ call[c].judge_calls = 0
    /\ call[c].set_outcome = "none"
    /\ call[c].outcome = "none"

C30_InvalidRequestsNeverRun ==
    /\ \A c \in Calls :
          (/\ EvaluateRequest(c)
           /\ AnswerOutOfRange(call[c].answer) \/ QuestionOutOfRange(call[c].question))
             => Untouched(c)
    /\ (/\ rank.pc # "idle"
        /\ \/ DuplicateId(rank.candidates)
           \/ BatchOutOfRange(rank.candidates)
           \/ QuestionOutOfRange(rank.question_context))
          => \A c \in Calls : call[c] = IdleCall

(* C30 witness: a ranking request with the same id twice, every answer     *)
(* long enough, has been refused.                                          *)
C30_DuplicateIdRefused ==
    /\ rank.pc = "rejected"
    /\ DuplicateId(rank.candidates)
    /\ ~BatchOutOfRange(rank.candidates)
    /\ ~QuestionOutOfRange(rank.question_context)

(* C31: what an evaluate call does to the store.  In a step of a call, an  *)
(* entry that changes is the one under the key of that call's answer and   *)
(* question, and it becomes the serialized response the call returns:      *)
(* every other entry stays as it was, no entry goes away, and a call that  *)
(* got its response from the cache changes nothing.  Specification: Spec.  *)
Moved(c) == call'[c] # call[c]

C31_StepWritesOwnEntryOnly ==
    \A c \in Calls :
        Moved(c) =>
            /\ \A k \in StoreKeys :
                  store'[k] # store[k] =>
                      /\ k = generate_cache_key(call[c].answer, call[c].question)
                      /\ call'[c].result # None
                      /\ store'[k] = Some(Serialize(Val(call'[c].result)))
            /\ call[c].get_outcome = "hit" => store' = store

C31_OwnEntryOnly == [][C31_StepWritesOwnEntryOnly]_vars

(* C31 witness: a call has written its entry while another key's entry,    *)
(* written earlier, is still there.                                        *)
C31_WroteBesideAnother ==
    \E c \in Calls, k \in StoreKeys :
        /\ call[c].set_outcome = "written"
        /\ k # Val(call[c].cache_key)
        /\ store[k] # None
        /\ store[Val(call[c].cache_key)] = Some(Serialize(Val(call[c].result)))

(* C32: the order of evaluate()'s operations on a miss.  The cache is      *)
(* asked once and before any stage; the stages run after that and before   *)
(* the write; the write is one, it is awaited only when the four stages    *)
(* have run, it goes under the key that was read, and no stage runs once   *)
(* it is awaited or over.  Specification: SpecPipeline.                    *)
Missed(r) == r.get_outcome \in {"absent", "invalid", "failed"}

WriteDue(r) == r.pc = "await_set" \/ r.set_outcome \in {"written", "failed"}

C32_StepInOrder ==
    \A c \in Calls :
        LET r == call[c]
            s == call'[c]
        IN /\ s.get_outcome # r.get_outcome =>
                 r.get_outcome = "none" /\ r.nodes_run = <<>> /\ ~WriteDue(r)
           /\ s.nodes_run # r.nodes_run =>
                 /\ r.get_outcome # "none"
                 /\ s.get_outcome = r.get_outcome
                 /\ ~WriteDue(r)
                 /\ ~WriteDue(s)
           /\ WriteDue(s) =>
                 /\ Missed(s)
                 /\ s.nodes_run = PIPELINE
                 /\ s.cache_key = Some(generate_cache_key(s.answer, s.question))
           /\ WriteDue(r) => s.nodes_run = r.nodes_run /\ WriteDue(s)
           /\ s.set_outcome # r.set_outcome =>
                 /\ r.set_outcome = "none"
                 /\ s.set_outcome \in {"written", "failed"} => r.pc = "await_set"
                 /\ s.set_outcome = "written" =>
                       store' = setex(store, Val(r.cache_key), Serialize(Val(r.response)))

C32_ReadStagesWrite == [][C32_StepInOrder]_vars

\* C32 witness: a call that missed has run the four stages and written.
C32_MissedRanWrote ==
    \E c \in Calls :
        /\ Missed(call[c])
        /\ call[c].nodes_run = PIPELINE
        /\ call[c].set_outcome = "written"
        /\ Done(c)

(* C33: every RankedCandidate that _evaluate_candidate and rank_candidates *)
(* build satisfies the schema: a task that is over has returned a draft    *)
(* with its score in 1..5 and its rank at least 1, none has ended with the *)
(* validation error of a draft, and a ranking that is over has returned.   *)
(* Specification: SpecRank.                                                *)
C33_DraftsSatisfySchema ==
    /\ \A c \in Calls :
          call[c].task_outcome # "none" =>
              /\ call[c].task_outcome = "returned"
              /\ call[c].draft # None
              /\ RankedCandidateValid(Val(call[c].draft).score, Val(call[c].draft).rank)
    /\ rank.pc = "done" => RankReturned /\ RankedAllValid(RankedList)

(* C34: in one ranking, candidates with the same answer get the same       *)
(* evaluation: whenever evaluate() has returned for two candidates of the  *)
(* request whose answers are equal, it has returned the same score,        *)
(* summary and improvement to both.  Specification: SpecRankRace.          *)
C34_SameAnswerSameEvaluation ==
    \A c, d \in Calls :
        (/\ rank.pc # "idle"
         /\ Done(c) /\ call[c].outcome = "returned"
         /\ Done(d) /\ call[d].outcome = "returned"
         /\ call[c].answer = call[d].answer
         /\ call[c].question = call[d].question)
            => call[c].result = call[d].result

(* C35: the neutral response of evaluate()'s except branch is not cached.  *)
(* A call that ended there made no write, no entry of the store is the     *)
(* serialized neutral response, and a later call with the same answer and  *)
(* question, when no other call has written under that key, finds nothing  *)
(* in the cache and runs the four nodes again.                             *)
(* Specification: SpecHealthy.                                             *)
SameRequest(c, d) ==
    call[c].answer = call[d].answer /\ call[c].question = call[d].question

EndedNeutral(c) == Done(c) /\ FinalRefused(c) /\ call[c].result = Some(NEUTRAL_RESPONSE)

C35_NeutralNeverCached ==
    /\ \A k \in StoreKeys : store[k] # Some(Serialize(NEUTRAL_RESPONSE))
    /\ \A c \in Calls : EndedNeutral(c) => call[c].set_outcome = "none"
    /\ \A c, d \in Calls :
          (/\ EndedNeutral(c)
           /\ Done(d)
           /\ c \in call[d].preceded_by
           /\ SameRequest(c, d)
           /\ \A e \in Calls \ {d} :
                 (call[e].pc # "idle" /\ SameRequest(e, d)) =>
                     call[e].set_outcome # "written")
              => /\ call[d].get_outcome = "absent"
                 /\ call[d].nodes_run = PIPELINE
                 /\ call[d].judge_calls = 3

(* C35 witness: a call ended with the neutral response, and the same       *)
(* request, made afterwards, missed the cache and ran the pipeline.        *)
C35_RanAgainAfterNeutral ==
    \E c, d \in Calls :
        /\ EndedNeutral(c)
        /\ Done(d)
        /\ c \in call[d].preceded_by
        /\ SameRequest(c, d)
        /\ call[d].get_outcome = "absent"
        /\ call[d].nodes_run = PIPELINE

(* C36: a result made of stage fallbacks is cached like any other.  With   *)
(* the store healthy, a call that ran the four nodes with a judge call     *)
(* that failed has written its result under its key; and a later call      *)
(* with the same answer and question is a hit that runs no node and asks   *)
(* the judge nothing, and returns that same result when no other call has  *)
(* written under the key.  Specification: SpecFallbackCached.              *)
RanWithFailure(c) ==
    /\ Done(c)
    /\ call[c].nodes_run = PIPELINE
    /\ \E i \in 1..Len(call[c].judged) : ReplyFailed(call[c].judged[i].reply)

C36_FallbackResultCached ==
    /\ \A c \in Calls :
          RanWithFailure(c) =>
              /\ call[c].outcome = "returned"
              /\ call[c].set_outcome = "written"
              /\ store[Val(call[c].cache_key)] # None
    /\ \A c, d \in Calls :
          (/\ RanWithFailure(c)
           /\ Done(d)
           /\ c \in call[d].preceded_by
           /\ SameRequest(c, d))
              => /\ call[d].get_outcome = "hit"
                 /\ call[d].nodes_run = <<>>
                 /\ call[d].judge_calls = 0
                 /\ (\A e \in Calls \ {c, d} :
                        (call[e].pc # "idle" /\ SameRequest(e, d)) =>
                            call[e].set_outcome # "written")
                       => call[d].result = call[c].result

(* C36 witness: the three judge calls of a run failed, its result of       *)
(* fallbacks was written, and the same request made afterwards got it      *)
(* from the cache.                                                         *)
C36_FallbackServedFromCache ==
    \E c, d \in Calls :
        /\ RanWithFailure(c)
        /\ \A i \in 1..Len(call[c].judged) : ReplyFailed(call[c].judged[i].reply)
        /\ Val(call[c].result).summary = Some(SUMMARY_FALLBACK)
        /\ Done(d)
        /\ c \in call[d].preceded_by
        /\ SameRequest(c, d)
        /\ call[d].get_outcome = "hit"
        /\ call[d].result = call[c].result

(* C37: a service that was initialized without a store client never gets   *)
(* one.  Once the instance exists and holds no client (caching is          *)
(* disabled, or the ping of its initialization failed), it holds none      *)
(* after any step, and no call starts a cache read or a cache write in     *)
(* that step, whether the store answers by then or not.                    *)
(* Specification: Spec.                                                    *)
NoClient == evaluation_service # None /\ (redis_client = None \/ ~enable_caching)

C37_StepWithoutClient ==
    NoClient =>
        /\ redis_client' = None
        /\ \A c \in Calls :
              /\ call'[c].pc \in {"await_get", "await_set"} => call[c].pc = call'[c].pc
              /\ call[c].pc = "idle" => call'[c].get_outcome \in {"none", "skipped"}
              /\ call[c].set_outcome = "none" =>
                    call'[c].set_outcome \in {"none", "skipped"}
                       \/ call[c].pc = "await_set"

C37_NoClientNoCache == [][C37_StepWithoutClient]_vars

(* C37 witness: caching is enabled and the store answers, but the ping of  *)
(* the initialization failed: two calls, one after the other, have run the *)
(* pipeline without a read or a write.                                     *)
C37_StoreBackButUnused ==
    \E c, d \in Calls :
        /\ enable_caching /\ storeUp /\ NoClient
        /\ Done(c) /\ Done(d)
        /\ c \in call[d].preceded_by
        /\ call[d].get_outcome = "skipped"
        /\ call[d].set_outcome = "skipped"
        /\ call[d].nodes_run = PIPELINE
        /\ \A k \in StoreKeys : store[k] = None

(* C38: get_evaluation_service under concurrent calls.  The instance, once *)
(* created, is never created again; and while the initialization of the    *)
(* instance awaits the store's ping, no other caller has been given the    *)
(* instance: every other call is still to arrive.  Specification: Spec.    *)
C38_StepOfOneInitializedService ==
    /\ evaluation_service # None => evaluation_service' = evaluation_service
    /\ \A c, d \in Calls :
          (call'[c].pc = "await_ping" /\ d # c) => call'[d].pc = "idle"

====
